---- MODULE Spec2Model ----
(***************************************************************************)
(* zestor: a typed key-value store with two engines, the in-memory         *)
(* memStore (package gomap) and the durable sqLiteStore (package sqlite),  *)
(* and their Watch / publish subsystem.                                    *)
(*                                                                         *)
(* A goroutine calling the store is a process of Procs.  Every critical    *)
(* section of the code (the region between taking and releasing a lock, a  *)
(* database transaction, one channel send) is one action, so that the      *)
(* interleavings of the model are those of the code.                       *)
(***************************************************************************)
EXTENDS Integers, Sequences, FiniteSets, TLC

\* ------------------------------------------------------------ bounds
MaxOps      == 2    \* calls other than Watch made in one behaviour
MaxWatchers == 1    \* Watch calls made in one behaviour
MaxGen      == 1    \* re-opens of the durable store on the same DSN
MaxFanWatchers == 2 \* Watch calls made in one behaviour of SpecFan

Procs == {1, 2}
OneKind  == {"k1"}
TwoKinds == {"k1", "k2"}
OneKey   == {"a"}
TwoKeys  == {"a", "b"}
Values == {0, 1}

\* ------------------------------------------------------------ store.go
Zero == 0                           \* var zero T
NoVal == Zero - 1                        \* "no value" in a ghost or a result
ErrNil          == "nil"
ErrClosed       == "store closed"
ErrKeyNotFound  == "key not found"
ErrKindRequired == "kind required"
ErrValidation   == "validation error"
ErrTransform    == "transform error"
ErrStorage      == "storage error"
ErrCodec        == "codec error"

EventTypeCreate == "create"
EventTypeUpdate == "update"
EventTypeDelete == "delete"
EventTypes == {EventTypeCreate, EventTypeUpdate, EventTypeDelete}

DefaultWatchBufferSize == 128

\* WatchCfg.EventTypes == nil (no WithEventTypes option given)
NilTypes == {"<nil>"}

\* the filters Watch is given: none or one type, or always one type
SomeTypes == {NilTypes, {EventTypeDelete}}
FilteredTypes == {{EventTypeCreate}, {EventTypeDelete}}

DefaultCompareFunc(prev, new) == prev = new

\* the compare functions a store is configured with at construction:
\* the default, one that calls everything equal, one that calls nothing equal
CompareFns == {"deep", "always", "never"}

\* ------------------------------------------------------------ codec
\* codec.JSON on an integer: the decimal digits as ASCII bytes
RECURSIVE Digits(_)
Digits(n) == IF n < 10 THEN <<48 + n>> ELSE Append(Digits(n \div 10), 48 + (n % 10))

Marshal(v) == Digits(v)

RECURSIVE ParseDigits(_)
ParseDigits(b) ==
    IF Len(b) = 0 THEN 0
    ELSE 10 * ParseDigits(SubSeq(b, 1, Len(b) - 1)) + (b[Len(b)] - 48)

Unmarshal(b) == ParseDigits(b)

\* ------------------------------------------------------------ maps
EmptyMap == [x \in {} |-> 0]
Put(m, k, v) == [x \in (DOMAIN m) \cup {k} |-> IF x = k THEN v ELSE m[x]]
\* A delete that leaves the map as it was.
DelKeepsEntry(m, k) == m

Del(m, k) == [x \in (DOMAIN m) \ {k} |-> m[x]]

VARIABLES
    engine,         \* "mem" (gomap.NewMemStore) or "sql" (sqlite.New)
    compareFn,      \* memStore.compareFn
    validationFns,  \* memStore.validationFns: kind -> validation function
    closed,         \* memStore.closed / sqLiteStore.closed
    kinds,          \* memStore.kinds: kind -> (key -> value)
    watchers,       \* memStore.watchers: kind -> set of watcher ids
    db,             \* table zestor_kv: <<kind,key>> -> [value, version, updated_at]
    dbOpen,         \* the *sql.DB handle is open
    subs,           \* sqLiteStore.subs: [isNil, m: kind -> set of watchers]
    chans,          \* the watcher objects: id -> [kind, eventTypes, cap, q, closed, ...]
    watcherID,      \* memStore.watcherID / count of watchers allocated
    now,            \* the clock read by STRFTIME('now')
    pc,             \* where each goroutine is
    call,           \* the call each goroutine is making, or made last
    ret,            \* what that call returns
    loc,            \* a goroutine's locals during fan-out
    gh,             \* history of the current call (ghost)
    nops,           \* calls made so far (ghost)
    nmut,           \* mutations applied or committed so far (ghost)
    lastSet,        \* per entry: the value of the last successful Set if no
                    \* other mutation of the entry followed it (ghost)
    closeDone,      \* a Close call has returned (ghost)
    gen,            \* how often the durable store was re-opened (ghost)
    maxVersion,     \* per entry: the highest version its row has had (ghost)
    fault,          \* the panic that stopped the program, or "none"
    bound,          \* the number of calls and of watchers of the run, its kinds, keys and filters
    replay,         \* the initial-replay goroutine of each watcher that has one
    openTx          \* the transactions begun and neither committed nor rolled back

vars == <<engine, bound, replay, openTx, compareFn, validationFns, closed, kinds, watchers, db, dbOpen,
          subs, chans, watcherID, now, pc, call, ret, loc, gh, nops, nmut,
          lastSet, closeDone, gen, maxVersion, fault>>

memVars == <<compareFn, validationFns, kinds, watchers>>
sqlVars == <<db, dbOpen, subs, now, gen, maxVersion>>

\* the kinds and the keys the callers of a behaviour name
Kinds == bound.kinds
Keys  == bound.keys

Cells == Kinds \X Keys

NoCall == [op |-> "none", kind |-> "", key |-> "", val |-> NoVal,
           vals |-> EmptyMap, fn |-> "", w |-> 0, types |-> {}, buf |-> 0]
NoRet  == [err |-> ErrNil, ok |-> FALSE, val |-> NoVal, data |-> EmptyMap]
NoLoc  == [wchs |-> {}, evs |-> {}, cur |-> 0, rem |-> {}]
NoGh   == [absent |-> FALSE, same |-> FALSE, again |-> FALSE, applied |-> FALSE,
           pub |-> {}, afterClose |-> FALSE, preexist |-> {}, unchanged |-> {},
           seq |-> 0, tried |-> {}, drops |-> {}, before |-> {},
           began |-> FALSE, left |-> FALSE]

\* store.Event, with the call that emitted it and the number of its mutation
\* in the order of application or commit (ghost)
Event(kind, key, type, obj, seq, op) ==
    [kind |-> kind, key |-> key, type |-> type, obj |-> obj, seq |-> seq, op |-> op]

\* ------------------------------------------------------------ construction
\* gomap.NewMemStore / sqlite.New
NewMemStore(cmp, validate) ==
    /\ engine = "mem"
    /\ compareFn = cmp
    /\ validationFns = IF validate THEN [k \in Kinds |-> "nonzero"] ELSE EmptyMap
    /\ kinds = EmptyMap
    /\ watchers = EmptyMap
    /\ db = EmptyMap /\ dbOpen = FALSE
    /\ maxVersion = [c \in Cells |-> 0]
    /\ subs = [isNil |-> FALSE, m |-> EmptyMap]

\* sqlite.New creates the database file or opens an existing one: the table is
\* empty, or holds a row written by an earlier run
Row(bytes, version, at) == [value |-> bytes, version |-> version, updated_at |-> at]
InitDbs == {EmptyMap, [c \in {<<"k1", "a">>} |-> Row(Marshal(1), 2, 0)]}

New ==
    /\ engine = "sql"
    /\ compareFn = "deep" /\ validationFns = EmptyMap
    /\ kinds = EmptyMap /\ watchers = EmptyMap
    /\ db \in InitDbs /\ dbOpen = TRUE
    /\ maxVersion = [c \in Cells |-> IF c \in DOMAIN db THEN db[c].version ELSE 0]
    /\ subs = [isNil |-> FALSE, m |-> EmptyMap]

MemConfigs == {<<"deep", FALSE>>, <<"always", FALSE>>, <<"never", FALSE>>,
               <<"deep", TRUE>>}

InitCommon ==
    /\ closed = FALSE
    /\ chans = EmptyMap
    /\ watcherID = 0
    /\ now = 0
    /\ pc = [p \in Procs |-> "idle"]
    /\ call = [p \in Procs |-> NoCall]
    /\ ret = [p \in Procs |-> NoRet]
    /\ loc = [p \in Procs |-> NoLoc]
    /\ gh = [p \in Procs |-> NoGh]
    /\ nops = 0
    /\ nmut = 0
    /\ lastSet = [c \in Cells |-> NoVal]
    /\ closeDone = FALSE
    /\ gen = 0
    /\ fault = "none"
    /\ replay = EmptyMap
    /\ openTx = [n |-> 0, writer |-> FALSE]

InitMem == InitCommon /\ \E c \in MemConfigs : NewMemStore(c[1], c[2])
InitSql == InitCommon /\ New
Init ==
    /\ bound = [ops |-> MaxOps, watchers |-> MaxWatchers, kinds |-> OneKind, keys |-> TwoKeys,
               types |-> SomeTypes]
    /\ (InitMem \/ InitSql)


\* ------------------------------------------------------------ calls
\* The program has not panicked, and no call is at the instant of its return
\* (pc = "done" shows a call's results at that instant, and Return follows at
\* once).
Running == fault = "none" /\ \A q \in Procs : pc[q] # "done"

\* goroutine p makes call c.  Goroutines are interchangeable: the call is made
\* by the first idle one.
Calls(p, c) ==
    /\ Running
    /\ pc[p] = "idle"
    /\ \A q \in Procs : q < p => pc[q] # "idle"
    /\ call' = [call EXCEPT ![p] = c]
    /\ IF c.op = "Watch"
       THEN watcherID < bound.watchers /\ nops' = nops
       ELSE nops < bound.ops /\ nops' = nops + 1

\* the inputs of the write calls: SetAll is given one entry, or one per key
SetAllInputs == {[k \in {"a"} |-> 1], [k \in Keys |-> IF k = "a" THEN 0 ELSE 1]}
Fns == {"inc", "same", "fail"}
Transform(fn, v) == IF fn = "inc" THEN (v + 1) % Cardinality(Values) ELSE v
TransformFails(fn) == fn = "fail"

\* the inputs of Watch: WithEventTypes (or none), WithBufferSize
WatchTypes == bound.types
WatchBufs == {0, 1}

\* bufSize := cfg.BufferSize; if bufSize <= 0 { bufSize = DefaultWatchBufferSize }
BufSize(buf) == IF buf <= 0 THEN DefaultWatchBufferSize ELSE buf

\* &watcher{ch: make(chan *Event, bufSize), eventTypes: cfg.EventTypes}
NewWatcher(kind, types, buf) ==
    [kind |-> kind, eventTypes |-> types, cap |-> BufSize(buf), q |-> <<>>,
     closed |-> FALSE, dropped |-> FALSE, gen |-> gen]

\* a filter that lets every event type through
WantsAll(w, type) == TRUE

\* if wch.eventTypes != nil { if _, ok := wch.eventTypes[evType]; !ok { continue } }
Wants(w, type) ==
    chans[w].eventTypes = NilTypes \/ type \in chans[w].eventTypes

\* a send that makes room in a full queue by discarding its oldest event
TrySendEvict(ch, ev) ==
    IF Len(ch.q) < ch.cap THEN [ch EXCEPT !.q = Append(@, ev)]
    ELSE [ch EXCEPT !.q = Append(Tail(@), ev), !.dropped = TRUE]

\* select { case wch.ch <- ev: default: } on an open channel
TrySend(ch, ev) ==
    IF Len(ch.q) < ch.cap THEN [ch EXCEPT !.q = Append(@, ev)]
    ELSE [ch EXCEPT !.dropped = TRUE]

\* the watchers of ws whose channel has no room for one more event: a send
\* to one of them takes the default branch of the select (ghost)
Full(ws) == {w \in ws : Len(chans[w].q) >= chans[w].cap}

\* the watchers that are registered for the kind, in s.watchers[kind] or in
\* s.subs[kind] (ghost)
Registered(kind) ==
    IF engine = "mem"
    THEN IF kind \in DOMAIN watchers THEN watchers[kind] ELSE {}
    ELSE IF subs.isNil \/ kind \notin DOMAIN subs.m THEN {} ELSE subs.m[kind]

\* a close that closes every channel there is
CloseEvery(ch, ws) == [w \in DOMAIN ch |-> [ch[w] EXCEPT !.closed = TRUE]]

\* close(wch.ch) for every watcher of ws
CloseAll(ch, ws) == [w \in DOMAIN ch |-> IF w \in ws THEN [ch[w] EXCEPT !.closed = TRUE] ELSE ch[w]]

\* ------------------------------------------------------------ memStore
\* memStore.ensureKind, on s.kinds and on s.watchers
ensureKind(m, kind) == IF kind \in DOMAIN m THEN m ELSE Put(m, kind, EmptyMap)
ensureKindWatchers(m, kind) == IF kind \in DOMAIN m THEN m ELSE Put(m, kind, {})

\* fn(value) != nil for the kind's validation function: it rejects the zero value
ValidateFails(kind, value) == kind \in DOMAIN validationFns /\ value = Zero

\* s.compareFn(prev, value)
CompareFn(prev, new) ==
    CASE compareFn = "deep"   -> DefaultCompareFunc(prev, new)
      [] compareFn = "always" -> TRUE
      [] compareFn = "never"  -> FALSE

\* m := s.kinds[kind]; v, ok := m[key]
MemLookup(ks, kind, key) ==
    IF kind \in DOMAIN ks /\ key \in DOMAIN ks[kind]
    THEN [ok |-> TRUE, val |-> ks[kind][key]]
    ELSE [ok |-> FALSE, val |-> Zero]

\* what a critical section of memStore leaves behind when it changes nothing
MemKeep ==
    [kinds |-> kinds, watchers |-> watchers, closed |-> closed, chans |-> chans,
     watcherID |-> watcherID, ret |-> NoRet, evs |-> {}, wchs |-> {},
     gh |-> NoGh, last |-> lastSet, closeDone |-> closeDone, fault |-> "none",
     replay |-> replay]

\* return !existed, nil
SetCreated(existed) == ~existed

\* memStore.Set with lines 150 and 152 exchanged: the value is compared
\* first, and a value the compare function calls equal is not stored
MemSetOutCompareFirst(kind, key, value) ==
    LET ks == ensureKind(kinds, kind)
        ws == ensureKindWatchers(watchers, kind)
        cur == MemLookup(ks, kind, key)
        ks2 == [ks EXCEPT ![kind] = Put(@, key, value)]
        evType == IF cur.ok THEN EventTypeUpdate ELSE EventTypeCreate
        last == [lastSet EXCEPT ![<<kind, key>>] = value]
    IN  IF closed THEN [MemKeep EXCEPT !.ret.err = ErrClosed]
        ELSE IF ValidateFails(kind, value)
        THEN [MemKeep EXCEPT !.kinds = ks, !.watchers = ws, !.ret.err = ErrValidation]
        ELSE IF CompareFn(cur.val, value)
        THEN [MemKeep EXCEPT !.kinds = ks, !.watchers = ws, !.last = last]
        ELSE [MemKeep EXCEPT !.kinds = ks2, !.watchers = ws, !.last = last,
                             !.gh = [NoGh EXCEPT !.applied = TRUE],
                             !.evs = {Event(kind, key, evType, value, nmut + 1, "Set")},
                             !.wchs = ws[kind],
                             !.ret.ok = SetCreated(cur.ok)]

\* memStore.Set, the section under s.mu
MemSetOut(kind, key, value) ==
    LET ks == ensureKind(kinds, kind)
        ws == ensureKindWatchers(watchers, kind)
        cur == MemLookup(ks, kind, key)
        ks2 == [ks EXCEPT ![kind] = Put(@, key, value)]
        evType == IF cur.ok THEN EventTypeUpdate ELSE EventTypeCreate
        g == [NoGh EXCEPT !.absent = ~cur.ok, !.same = cur.ok /\ cur.val = value,
                          !.again = lastSet[<<kind, key>>] = value, !.applied = TRUE]
    IN  IF closed THEN [MemKeep EXCEPT !.ret.err = ErrClosed]
        ELSE IF ValidateFails(kind, value)
        THEN [MemKeep EXCEPT !.kinds = ks, !.watchers = ws, !.ret.err = ErrValidation]
        ELSE IF CompareFn(cur.val, value)
        THEN [MemKeep EXCEPT !.kinds = ks2, !.watchers = ws, !.gh = g,
                             !.last = [lastSet EXCEPT ![<<kind, key>>] = value]]
        ELSE [MemKeep EXCEPT !.kinds = ks2, !.watchers = ws, !.gh = g,
                             !.last = [lastSet EXCEPT ![<<kind, key>>] = value],
                             !.evs = {Event(kind, key, evType, value, nmut + 1, "Set")},
                             !.wchs = ws[kind],
                             !.ret.ok = SetCreated(cur.ok)]

\* a SetAll that emits no update event for a key whose value it did not change
MemSetAllOutSkipsUnchanged(kind, values) ==
    LET ks == ensureKind(kinds, kind)
        ws == ensureKindWatchers(watchers, kind)
        created == {k \in DOMAIN values : k \notin DOMAIN ks[kind]}
        updated == {k \in DOMAIN values : k \in DOMAIN ks[kind]}
        ks2 == [ks EXCEPT ![kind] =
                  [k \in (DOMAIN @) \cup DOMAIN values |->
                      IF k \in DOMAIN values THEN values[k] ELSE @[k]]]
        g == [NoGh EXCEPT !.applied = TRUE, !.preexist = updated,
                 !.unchanged = {k \in updated : ks[kind][k] = values[k]}]
    IN  IF closed THEN [MemKeep EXCEPT !.ret.err = ErrClosed]
        ELSE IF \E k \in DOMAIN values : ValidateFails(kind, values[k])
        THEN [MemKeep EXCEPT !.kinds = ks, !.watchers = ws, !.ret.err = ErrValidation]
        ELSE [MemKeep EXCEPT !.kinds = ks2, !.watchers = ws, !.gh = g,
                 !.last = [c \in Cells |->
                             IF c[1] = kind /\ c[2] \in DOMAIN values THEN NoVal
                             ELSE lastSet[c]],
                 !.evs = {Event(kind, k, EventTypeCreate, values[k], nmut + 1, "SetAll") : k \in created}
                         \cup {Event(kind, k, EventTypeUpdate, values[k], nmut + 1, "SetAll") :
                                  k \in {x \in updated : ks[kind][x] # values[x]}},
                 !.wchs = ws[kind]]

\* memStore.SetAll, the section under s.mu
MemSetAllOut(kind, values) ==
    LET ks == ensureKind(kinds, kind)
        ws == ensureKindWatchers(watchers, kind)
        created == {k \in DOMAIN values : k \notin DOMAIN ks[kind]}
        updated == {k \in DOMAIN values : k \in DOMAIN ks[kind]}
        ks2 == [ks EXCEPT ![kind] =
                  [k \in (DOMAIN @) \cup DOMAIN values |->
                      IF k \in DOMAIN values THEN values[k] ELSE @[k]]]
        g == [NoGh EXCEPT !.applied = TRUE, !.preexist = updated,
                 !.unchanged = {k \in updated : ks[kind][k] = values[k]}]
    IN  IF closed THEN [MemKeep EXCEPT !.ret.err = ErrClosed]
        ELSE IF \E k \in DOMAIN values : ValidateFails(kind, values[k])
        THEN [MemKeep EXCEPT !.kinds = ks, !.watchers = ws, !.ret.err = ErrValidation]
        ELSE [MemKeep EXCEPT !.kinds = ks2, !.watchers = ws, !.gh = g,
                 !.last = [c \in Cells |->
                             IF c[1] = kind /\ c[2] \in DOMAIN values THEN NoVal
                             ELSE lastSet[c]],
                 !.evs = {Event(kind, k, EventTypeCreate, values[k], nmut + 1, "SetAll") : k \in created}
                         \cup {Event(kind, k, EventTypeUpdate, values[k], nmut + 1, "SetAll") : k \in updated},
                 !.wchs = ws[kind]]

\* memStore.Delete, the section under s.mu
MemDeleteOut(kind, key) ==
    LET ks == ensureKind(kinds, kind)
        ws == ensureKindWatchers(watchers, kind)
        cur == MemLookup(ks, kind, key)
    IN  IF closed THEN [MemKeep EXCEPT !.ret.err = ErrClosed]
        ELSE IF ~cur.ok
        THEN [MemKeep EXCEPT !.kinds = ks, !.watchers = ws,
                             !.gh = [NoGh EXCEPT !.absent = TRUE]]
        ELSE [MemKeep EXCEPT !.kinds = [ks EXCEPT ![kind] = Del(@, key)],
                             !.watchers = ws,
                             !.gh = [NoGh EXCEPT !.applied = TRUE],
                             !.last = [lastSet EXCEPT ![<<kind, key>>] = NoVal],
                             !.evs = {Event(kind, key, EventTypeDelete, cur.val, nmut + 1, "Delete")},
                             !.wchs = ws[kind],
                             !.ret.ok = TRUE, !.ret.val = cur.val]

\* a SetFn whose boolean result tells whether the stored value changed
MemSetFnOutReportsChange(kind, key, fn) ==
    LET ks == ensureKind(kinds, kind)
        ws == ensureKindWatchers(watchers, kind)
        cur == MemLookup(ks, kind, key)
        value == Transform(fn, cur.val)
    IN  IF closed THEN [MemKeep EXCEPT !.ret.err = ErrClosed]
        ELSE IF ~cur.ok
        THEN [MemKeep EXCEPT !.kinds = ks, !.watchers = ws, !.ret.err = ErrKeyNotFound,
                             !.gh = [NoGh EXCEPT !.absent = TRUE]]
        ELSE IF TransformFails(fn)
        THEN [MemKeep EXCEPT !.kinds = ks, !.watchers = ws, !.ret.err = ErrTransform]
        ELSE [MemKeep EXCEPT !.kinds = [ks EXCEPT ![kind] = Put(@, key, value)],
                             !.watchers = ws,
                             !.ret.ok = cur.val # value,
                             !.gh = [NoGh EXCEPT !.applied = TRUE, !.same = cur.val = value],
                             !.last = [lastSet EXCEPT ![<<kind, key>>] = NoVal],
                             !.evs = {Event(kind, key, EventTypeUpdate, value, nmut + 1, "SetFn")},
                             !.wchs = ws[kind]]

\* a SetFn that emits its update event and leaves the entry as it was
MemSetFnOutLosesUpdate(kind, key, fn) ==
    LET ks == ensureKind(kinds, kind)
        ws == ensureKindWatchers(watchers, kind)
        cur == MemLookup(ks, kind, key)
        value == Transform(fn, cur.val)
    IN  IF closed THEN [MemKeep EXCEPT !.ret.err = ErrClosed]
        ELSE IF ~cur.ok
        THEN [MemKeep EXCEPT !.kinds = ks, !.watchers = ws, !.ret.err = ErrKeyNotFound,
                             !.gh = [NoGh EXCEPT !.absent = TRUE]]
        ELSE IF TransformFails(fn)
        THEN [MemKeep EXCEPT !.kinds = ks, !.watchers = ws, !.ret.err = ErrTransform]
        ELSE [MemKeep EXCEPT !.kinds = ks,
                             !.watchers = ws,
                             !.gh = [NoGh EXCEPT !.applied = TRUE, !.same = cur.val = value],
                             !.last = [lastSet EXCEPT ![<<kind, key>>] = NoVal],
                             !.evs = {Event(kind, key, EventTypeUpdate, value, nmut + 1, "SetFn")},
                             !.wchs = ws[kind]]

\* memStore.SetFn, the section under s.mu
MemSetFnOut(kind, key, fn) ==
    LET ks == ensureKind(kinds, kind)
        ws == ensureKindWatchers(watchers, kind)
        cur == MemLookup(ks, kind, key)
        value == Transform(fn, cur.val)
    IN  IF closed THEN [MemKeep EXCEPT !.ret.err = ErrClosed]
        ELSE IF ~cur.ok
        THEN [MemKeep EXCEPT !.kinds = ks, !.watchers = ws, !.ret.err = ErrKeyNotFound,
                             !.gh = [NoGh EXCEPT !.absent = TRUE]]
        ELSE IF TransformFails(fn)
        THEN [MemKeep EXCEPT !.kinds = ks, !.watchers = ws, !.ret.err = ErrTransform]
        ELSE [MemKeep EXCEPT !.kinds = [ks EXCEPT ![kind] = Put(@, key, value)],
                             !.watchers = ws,
                             !.gh = [NoGh EXCEPT !.applied = TRUE, !.same = cur.val = value],
                             !.last = [lastSet EXCEPT ![<<kind, key>>] = NoVal],
                             !.evs = {Event(kind, key, EventTypeUpdate, value, nmut + 1, "SetFn")},
                             !.wchs = ws[kind]]


\* reads of memStore whose Count returns len(s.kinds), the number of kinds
MemReadOutCountsKinds(op, kind, key) ==
    LET m == IF kind \in DOMAIN kinds THEN kinds[kind] ELSE EmptyMap
        cur == MemLookup(kinds, kind, key)
    IN  IF closed THEN [MemKeep EXCEPT !.ret.err = ErrClosed]
        ELSE CASE op = "Get"    -> [MemKeep EXCEPT !.ret.ok = cur.ok, !.ret.val = cur.val]
               [] op = "List"   -> [MemKeep EXCEPT !.ret.ok = TRUE, !.ret.data = m]
               [] op = "Keys"   -> [MemKeep EXCEPT !.ret.ok = TRUE, !.ret.data = DOMAIN m]
               [] op = "Values" -> [MemKeep EXCEPT !.ret.ok = TRUE,
                                                   !.ret.data = {<<k, m[k]>> : k \in DOMAIN m}]
               [] op = "Count"  -> [MemKeep EXCEPT !.ret.ok = TRUE,
                                                   !.ret.data = Cardinality(DOMAIN kinds)]
               [] op = "GetAll" -> [MemKeep EXCEPT !.ret.ok = TRUE, !.ret.data = kinds]

\* memStore.Get, List (no filter), Keys, Values, Count, GetAll: the section
\* under s.mu.RLock.  Keys and Values are built by ranging over a map, in no
\* fixed order: they are modelled as sets.
MemReadOut(op, kind, key) ==
    LET m == IF kind \in DOMAIN kinds THEN kinds[kind] ELSE EmptyMap
        cur == MemLookup(kinds, kind, key)
    IN  IF closed THEN [MemKeep EXCEPT !.ret.err = ErrClosed]
        ELSE CASE op = "Get"    -> [MemKeep EXCEPT !.ret.ok = cur.ok, !.ret.val = cur.val]
               [] op = "List"   -> [MemKeep EXCEPT !.ret.ok = TRUE, !.ret.data = m]
               [] op = "Keys"   -> [MemKeep EXCEPT !.ret.ok = TRUE, !.ret.data = DOMAIN m]
               [] op = "Values" -> [MemKeep EXCEPT !.ret.ok = TRUE,
                                                   !.ret.data = {<<k, m[k]>> : k \in DOMAIN m}]
               [] op = "Count"  -> [MemKeep EXCEPT !.ret.ok = TRUE,
                                                   !.ret.data = Cardinality(DOMAIN m)]
               [] op = "GetAll" -> [MemKeep EXCEPT !.ret.ok = TRUE, !.ret.data = kinds]

ReadOps == {"Get", "List", "Keys", "Values", "Count", "GetAll"}

\* a Watch that registers its watcher without looking at the kind
MemWatchOutAnyKind(kind, types, buf) ==
    LET ks == ensureKind(kinds, kind)
        ws == ensureKindWatchers(watchers, kind)
        id == watcherID + 1
    IN  IF closed THEN [MemKeep EXCEPT !.ret.err = ErrClosed]
        ELSE [MemKeep EXCEPT !.kinds = ks,
                             !.watchers = [ws EXCEPT ![kind] = @ \cup {id}],
                             !.watcherID = id,
                             !.chans = Put(chans, id, NewWatcher(kind, types, buf)),
                             !.ret.ok = TRUE, !.ret.val = id]

\* memStore.Watch: the kind check and the section under s.mu
MemWatchOut(kind, types, buf) ==
    LET ks == ensureKind(kinds, kind)
        ws == ensureKindWatchers(watchers, kind)
        id == watcherID + 1
    IN  IF kind = "" THEN [MemKeep EXCEPT !.ret.err = ErrKindRequired]
        ELSE IF closed THEN [MemKeep EXCEPT !.ret.err = ErrClosed]
        ELSE [MemKeep EXCEPT !.kinds = ks,
                             !.watchers = [ws EXCEPT ![kind] = @ \cup {id}],
                             !.watcherID = id,
                             !.chans = Put(chans, id, NewWatcher(kind, types, buf)),
                             !.ret.ok = TRUE, !.ret.val = id]

\* a write call is between its start and the end of its fan-out (ghost)
WriteBusy == \E q \in Procs : pc[q] \in {"tx", "publish", "fanout"}

\* a replay that is sent whatever the filter
SendInitialAlways(types) == TRUE

\* a replay that is sent only to a watcher whose filter names create
SendInitialIfNamed(types) == types # NilTypes /\ EventTypeCreate \in types

\* sendInitial := wch.eventTypes == nil; if !sendInitial { _, sendInitial =
\* wch.eventTypes[store.EventTypeCreate] }
SendInitial(types) == types = NilTypes \/ EventTypeCreate \in types

\* The goroutine of the initial replay: the entries it has still to send and
\* where it stands ("check" and "query" are the two steps of s.List in
\* sqLiteStore, "send" is the loop, "done" is a goroutine that has returned or
\* was never started).  Ghosts: the entries of the kind when the watcher was
\* registered, the number of mutations before, and whether a write was in
\* progress.  doneCh: the cancel function of memStore has closed doneCh.
NewReplay(todo, phase, entries) ==
    [todo |-> todo, phase |-> phase, at |-> entries, since |-> nmut,
     busy |-> WriteBusy, doneCh |-> FALSE]

\* memStore.Watch with WithInitialReplay: snap = cloneMap(s.kinds[kind]) under
\* s.mu, and the goroutine is started if cfg.Initial && len(snap) > 0 &&
\* sendInitial
MemWatchInitialOut(kind, types, buf) ==
    LET out == MemWatchOut(kind, types, buf)
        snap == IF kind \in DOMAIN kinds THEN kinds[kind] ELSE EmptyMap
        starts == snap # EmptyMap /\ SendInitial(types)
    IN  IF out.ret.err # ErrNil THEN out
        ELSE [out EXCEPT !.replay = Put(replay, out.watcherID,
                  NewReplay(IF starts THEN snap ELSE EmptyMap,
                            IF starts THEN "send" ELSE "done", snap))]

\* a cancel function that does not look its watcher up before closing it
CancelFindsAlways(registered, w) == TRUE

\* if wch, ok := w[id]; ok { delete(w, id); close(doneCh); close(wch.ch) }
CancelFinds(registered, w) == w \in registered

\* the cancel function memStore.Watch returns, for watcher w
MemCancelOut(w) ==
    LET kind == chans[w].kind
        found == kind \in DOMAIN watchers /\ CancelFinds(watchers[kind], w)
    IN  IF ~found THEN MemKeep
        ELSE IF chans[w].closed
        THEN [MemKeep EXCEPT !.fault = "close of closed channel"]
        ELSE [MemKeep EXCEPT !.watchers = [watchers EXCEPT ![kind] = @ \ {w}],
                             !.replay = [x \in DOMAIN replay |->
                                            IF x = w THEN [replay[x] EXCEPT !.doneCh = TRUE]
                                            ELSE replay[x]],
                             !.chans = CloseAll(chans, {w})]

\* memStore.Close
MemCloseOut ==
    LET all == UNION {watchers[k] : k \in DOMAIN watchers}
    IN  IF closed THEN [MemKeep EXCEPT !.closeDone = TRUE]
        ELSE IF \E w \in all : chans[w].closed
        THEN [MemKeep EXCEPT !.closed = TRUE, !.fault = "close of closed channel"]
        ELSE [MemKeep EXCEPT !.closed = TRUE,
                             !.watchers = [k \in DOMAIN watchers |-> {}],
                             !.chans = CloseAll(chans, all),
                             !.closeDone = TRUE]

\* goroutine p runs one critical section of memStore with outcome out, and
\* goes on to the fan-out when there is something to send
MemDo(p, c, out) ==
    /\ engine = "mem"
    /\ Calls(p, c)
    /\ kinds' = out.kinds
    /\ watchers' = out.watchers
    /\ closed' = out.closed
    /\ chans' = out.chans
    /\ watcherID' = out.watcherID
    /\ ret' = [ret EXCEPT ![p] = out.ret]
    /\ gh' = [gh EXCEPT ![p] = [out.gh EXCEPT !.afterClose = closeDone, !.pub = out.evs,
                                              !.seq = IF out.gh.applied THEN nmut + 1 ELSE 0,
                                              !.before = Registered(c.kind)]]
    /\ nmut' = IF out.gh.applied THEN nmut + 1 ELSE nmut
    /\ lastSet' = out.last
    /\ closeDone' = out.closeDone
    /\ fault' = out.fault
    /\ replay' = out.replay
    /\ IF out.fault # "none"
       THEN pc' = [pc EXCEPT ![p] = "panic"] /\ loc' = [loc EXCEPT ![p] = NoLoc]
       ELSE IF out.wchs = {} \/ out.evs = {}
       THEN pc' = [pc EXCEPT ![p] = "done"] /\ loc' = [loc EXCEPT ![p] = NoLoc]
       ELSE /\ pc' = [pc EXCEPT ![p] = "fanout"]
            /\ loc' = [loc EXCEPT ![p] = [NoLoc EXCEPT !.wchs = out.wchs, !.evs = out.evs]]
    /\ UNCHANGED <<engine, openTx, bound, compareFn, validationFns, sqlVars>>

MemSet(p, kind, key, value) ==
    MemDo(p, [NoCall EXCEPT !.op = "Set", !.kind = kind, !.key = key, !.val = value],
          MemSetOut(kind, key, value))

MemSetAll(p, kind, values) ==
    MemDo(p, [NoCall EXCEPT !.op = "SetAll", !.kind = kind, !.vals = values],
          MemSetAllOut(kind, values))

MemDelete(p, kind, key) ==
    MemDo(p, [NoCall EXCEPT !.op = "Delete", !.kind = kind, !.key = key],
          MemDeleteOut(kind, key))

MemSetFn(p, kind, key, fn) ==
    MemDo(p, [NoCall EXCEPT !.op = "SetFn", !.kind = kind, !.key = key, !.fn = fn],
          MemSetFnOut(kind, key, fn))

MemRead(p, op, kind, key) ==
    MemDo(p, [NoCall EXCEPT !.op = op, !.kind = kind, !.key = key],
          MemReadOut(op, kind, key))

MemWatch(p, kind, types, buf) ==
    MemDo(p, [NoCall EXCEPT !.op = "Watch", !.kind = kind, !.types = types, !.buf = buf],
          MemWatchOut(kind, types, buf))

MemWatchInitial(p, kind, types, buf) ==
    MemDo(p, [NoCall EXCEPT !.op = "Watch", !.kind = kind, !.types = types, !.buf = buf],
          MemWatchInitialOut(kind, types, buf))

MemCancel(p, w) ==
    MemDo(p, [NoCall EXCEPT !.op = "cancel", !.w = w], MemCancelOut(w))

MemClose(p) ==
    MemDo(p, [NoCall EXCEPT !.op = "Close"], MemCloseOut)

\* the events of evs the loop body sends next: in SetAll the creates of a
\* watcher go before its updates
NextEvents(rem) ==
    IF \E e \in rem : e.type = EventTypeCreate
    THEN {e \in rem : e.type = EventTypeCreate}
    ELSE rem

\* one send of the loop "for _, wch := range wchs" after s.mu.Unlock(), in
\* Set, SetAll, Delete and SetFn: the watcher is taken from the snapshot, in
\* no fixed order; a send on a channel that was closed in between panics
MemFanout(p) ==
    /\ engine = "mem" /\ Running /\ pc[p] = "fanout"
    /\ \E w \in (IF loc[p].rem = {} THEN loc[p].wchs ELSE {loc[p].cur}) :
         LET fresh == loc[p].rem = {}
             todo == IF fresh THEN {e \in loc[p].evs : Wants(w, e.type)} ELSE loc[p].rem
             left == IF fresh THEN loc[p].wchs \ {w} ELSE loc[p].wchs
         IN  IF todo = {}
             THEN /\ loc' = [loc EXCEPT ![p] = IF left = {} THEN NoLoc
                                               ELSE [@ EXCEPT !.wchs = left]]
                  /\ pc' = [pc EXCEPT ![p] = IF left = {} THEN "done" ELSE "fanout"]
                  /\ UNCHANGED <<chans, gh, fault>>
             ELSE \E e \in NextEvents(todo) :
                    IF chans[w].closed
                    THEN /\ fault' = "send on closed channel"
                         /\ pc' = [pc EXCEPT ![p] = "panic"]
                         /\ UNCHANGED <<chans, gh, loc>>
                    ELSE /\ chans' = [chans EXCEPT ![w] = TrySend(@, e)]
                         /\ gh' = [gh EXCEPT ![p].tried = @ \cup {<<w, e.key>>},
                                               ![p].drops = @ \cup (Full({w}) \X {e.key})]
                         /\ LET rest == todo \ {e}
                                fin == rest = {} /\ left = {}
                            IN  /\ loc' = [loc EXCEPT ![p] =
                                      IF fin THEN NoLoc
                                      ELSE [@ EXCEPT !.wchs = left, !.cur = w, !.rem = rest]]
                                /\ pc' = [pc EXCEPT ![p] = IF fin THEN "done" ELSE "fanout"]
                         /\ UNCHANGED fault
    /\ UNCHANGED <<engine, openTx, bound, replay, closed, memVars, sqlVars, watcherID, call, ret, nops,
                   nmut, lastSet, closeDone>>

\* the consumer of watcher w's channel receives one event
Recv(w) ==
    /\ Running
    /\ w \in DOMAIN chans
    /\ chans[w].q # <<>>
    /\ chans' = [chans EXCEPT ![w].q = Tail(@)]
    /\ UNCHANGED <<engine, openTx, bound, replay, closed, memVars, sqlVars, watcherID, pc, call, ret, loc, gh,
                   nops, nmut, lastSet, closeDone, fault>>

\* the call of goroutine p returns to its caller
Return(p) ==
    /\ fault = "none"
    /\ pc[p] = "done"
    /\ pc' = [pc EXCEPT ![p] = "idle"]
    /\ call' = [call EXCEPT ![p] = NoCall]
    /\ ret' = [ret EXCEPT ![p] = NoRet]
    /\ gh' = [gh EXCEPT ![p] = NoGh]
    /\ UNCHANGED <<engine, openTx, bound, replay, closed, memVars, sqlVars, chans, watcherID, loc, nops, nmut,
                   lastSet, closeDone, fault>>

NextMem ==
    \/ \E p \in Procs, kind \in Kinds, key \in Keys, v \in Values : MemSet(p, kind, key, v)
    \/ \E p \in Procs, kind \in Kinds, vs \in SetAllInputs : MemSetAll(p, kind, vs)
    \/ \E p \in Procs, kind \in Kinds, key \in Keys : MemDelete(p, kind, key)
    \/ \E p \in Procs, kind \in Kinds, key \in Keys, fn \in Fns : MemSetFn(p, kind, key, fn)
    \/ \E p \in Procs, kind \in Kinds, key \in Keys : MemRead(p, "Get", kind, key)
    \/ \E p \in Procs, op \in ReadOps \ {"Get"}, kind \in Kinds : MemRead(p, op, kind, "")
    \/ \E p \in Procs, kind \in Kinds \cup {""}, t \in WatchTypes, b \in WatchBufs :
          MemWatch(p, kind, t, b)
    \/ \E p \in Procs, w \in DOMAIN chans : MemCancel(p, w)
    \/ \E p \in Procs : MemClose(p)
    \/ \E p \in Procs : MemFanout(p)


\* ------------------------------------------------------------ sqLiteStore
\* getQuery and codec.Unmarshal: SELECT value FROM zestor_kv WHERE kind=? AND key=?
SqlLookup(d, kind, key) ==
    IF <<kind, key>> \in DOMAIN d
    THEN [ok |-> TRUE, val |-> Unmarshal(d[<<kind, key>>].value)]
    ELSE [ok |-> FALSE, val |-> Zero]

\* SELECT key FROM zestor_kv WHERE kind=?
SqlKeys(d, kind) == {k \in Keys : <<kind, k>> \in DOMAIN d}

\* a comparison that never finds the stored bytes equal to the written ones
BytesNeverEqual(cur, enc) == FALSE

\* bytes.Equal(cur, enc)
BytesEqual(cur, enc) == cur = enc

\* what a transaction leaves behind when it is rolled back, or changes nothing
SqlKeep == [db |-> db, ret |-> NoRet, evs |-> {}, gh |-> NoGh, last |-> lastSet]

\* UPDATE zestor_kv SET value=?, version=version+1, updated_at=STRFTIME(...,'now')
UpdateRow(row, enc, t) == Row(enc, row.version + 1, t)

\* an upsert without the CASE expressions: version = version + 1 and
\* updated_at = now on every conflict
UpsertRowBump(row, enc, t) == Row(enc, row.version + 1, t)

\* INSERT ... ON CONFLICT(kind,key) DO UPDATE SET value = excluded.value,
\*   version = CASE WHEN zestor_kv.value != excluded.value THEN version + 1 ELSE version END,
\*   updated_at = CASE WHEN zestor_kv.value != excluded.value THEN now ELSE updated_at END
UpsertRow(row, enc, t) ==
    Row(enc,
        IF row.value # enc THEN row.version + 1 ELSE row.version,
        IF row.value # enc THEN t ELSE row.updated_at)

\* sqLiteStore.Set from codec.Marshal to tx.Commit, at clock time t
SqlSetTx(kind, key, value, t) ==
    LET enc == Marshal(value)
        cell == <<kind, key>>
        created == cell \notin DOMAIN db
        etype == IF created THEN EventTypeCreate ELSE EventTypeUpdate
        last == [lastSet EXCEPT ![cell] = value]
        g == [NoGh EXCEPT !.absent = created,
                          !.same = ~created /\ db[cell].value = enc,
                          !.again = lastSet[cell] = value]
    IN  IF created
        THEN [SqlKeep EXCEPT !.db = Put(db, cell, Row(enc, 1, t)),
                             !.gh = [g EXCEPT !.applied = TRUE],
                             !.last = last,
                             !.evs = {Event(kind, key, etype, value, nmut + 1, "Set")},
                             !.ret.ok = TRUE]
        ELSE IF BytesEqual(db[cell].value, enc)
        THEN [SqlKeep EXCEPT !.gh = g, !.last = last]
        ELSE [SqlKeep EXCEPT !.db = [db EXCEPT ![cell] = UpdateRow(@, enc, t)],
                             !.gh = [g EXCEPT !.applied = TRUE],
                             !.last = last,
                             !.evs = {Event(kind, key, etype, value, nmut + 1, "Set")}]

\* SetFn publishing its event when the transform has failed
SqlSetFnTxPublishesFailure(kind, key, fn, t) ==
    LET cell == <<kind, key>>
        cur == SqlLookup(db, kind, key)
        nv == Transform(fn, cur.val)
        newBytes == Marshal(nv)
        g == [NoGh EXCEPT !.same = cur.ok /\ db[cell].value = newBytes]
    IN  IF ~cur.ok
        THEN [SqlKeep EXCEPT !.ret.err = ErrKeyNotFound,
                             !.gh = [NoGh EXCEPT !.absent = TRUE]]
        ELSE IF TransformFails(fn)
        THEN [SqlKeep EXCEPT !.ret.err = ErrTransform,
                             !.evs = {Event(kind, key, EventTypeUpdate, nv, nmut + 1, "SetFn")}]
        ELSE IF BytesEqual(db[cell].value, newBytes)
        THEN [SqlKeep EXCEPT !.gh = g,
                             !.last = [lastSet EXCEPT ![cell] = NoVal]]
        ELSE [SqlKeep EXCEPT !.db = [db EXCEPT ![cell] = UpdateRow(@, newBytes, t)],
                             !.gh = [g EXCEPT !.applied = TRUE],
                             !.last = [lastSet EXCEPT ![cell] = NoVal],
                             !.evs = {Event(kind, key, EventTypeUpdate, nv, nmut + 1, "SetFn")}]

\* sqLiteStore.SetFn from db.Begin to tx.Commit
SqlSetFnTx(kind, key, fn, t) ==
    LET cell == <<kind, key>>
        cur == SqlLookup(db, kind, key)
        nv == Transform(fn, cur.val)
        newBytes == Marshal(nv)
        g == [NoGh EXCEPT !.same = cur.ok /\ db[cell].value = newBytes]
    IN  IF ~cur.ok
        THEN [SqlKeep EXCEPT !.ret.err = ErrKeyNotFound,
                             !.gh = [NoGh EXCEPT !.absent = TRUE]]
        ELSE IF TransformFails(fn) THEN [SqlKeep EXCEPT !.ret.err = ErrTransform]
        ELSE IF BytesEqual(db[cell].value, newBytes)
        THEN [SqlKeep EXCEPT !.gh = g,
                             !.last = [lastSet EXCEPT ![cell] = NoVal]]
        ELSE [SqlKeep EXCEPT !.db = [db EXCEPT ![cell] = UpdateRow(@, newBytes, t)],
                             !.gh = [g EXCEPT !.applied = TRUE],
                             !.last = [lastSet EXCEPT ![cell] = NoVal],
                             !.evs = {Event(kind, key, EventTypeUpdate, nv, nmut + 1, "SetFn")}]

\* sqLiteStore.SetAll from db.Begin to tx.Commit
SqlSetAllTx(kind, values, t) ==
    LET existingKeys == SqlKeys(db, kind)
        created == (DOMAIN values) \ existingKeys
        updated == (DOMAIN values) \cap existingKeys
        touched == {<<kind, k>> : k \in DOMAIN values}
    IN  [SqlKeep EXCEPT
            !.db = [c \in (DOMAIN db) \cup touched |->
                      IF c \notin touched THEN db[c]
                      ELSE IF c \in DOMAIN db THEN UpsertRow(db[c], Marshal(values[c[2]]), t)
                      ELSE Row(Marshal(values[c[2]]), 1, t)],
            !.gh = [NoGh EXCEPT !.applied = TRUE, !.preexist = updated,
                      !.unchanged = {k \in updated :
                                       db[<<kind, k>>].value = Marshal(values[k])}],
            !.last = [c \in Cells |-> IF c \in touched THEN NoVal ELSE lastSet[c]],
            !.evs = {Event(kind, k, EventTypeCreate, values[k], nmut + 1, "SetAll") : k \in created}
                    \cup {Event(kind, k, EventTypeUpdate, values[k], nmut + 1, "SetAll") : k \in updated}]

\* sqLiteStore.Delete from db.Begin to tx.Commit
SqlDeleteTx(kind, key) ==
    LET cell == <<kind, key>>
        prev == SqlLookup(db, kind, key)
    IN  IF ~prev.ok THEN [SqlKeep EXCEPT !.gh = [NoGh EXCEPT !.absent = TRUE]]
        ELSE [SqlKeep EXCEPT !.db = Del(db, cell),
                             !.gh = [NoGh EXCEPT !.applied = TRUE],
                             !.last = [lastSet EXCEPT ![cell] = NoVal],
                             !.evs = {Event(kind, key, EventTypeDelete, prev.val, nmut + 1, "Delete")},
                             !.ret.ok = TRUE, !.ret.val = prev.val]

\* the queries of Get, List (no filter), Keys, Values, Count and GetAll
SqlReadOut(op, kind, key) ==
    LET m == [k \in SqlKeys(db, kind) |-> Unmarshal(db[<<kind, k>>].value)]
        cur == SqlLookup(db, kind, key)
        present == {c[1] : c \in DOMAIN db}
    IN  CASE op = "Get"    -> [NoRet EXCEPT !.ok = cur.ok, !.val = cur.val]
          [] op = "List"   -> [NoRet EXCEPT !.ok = TRUE, !.data = m]
          [] op = "Keys"   -> [NoRet EXCEPT !.ok = TRUE, !.data = DOMAIN m]
          [] op = "Values" -> [NoRet EXCEPT !.ok = TRUE, !.data = {<<k, m[k]>> : k \in DOMAIN m}]
          [] op = "Count"  -> [NoRet EXCEPT !.ok = TRUE, !.data = Cardinality(DOMAIN m)]
          [] op = "GetAll" -> [NoRet EXCEPT !.ok = TRUE,
                 !.data = [kd \in present |->
                             [k \in SqlKeys(db, kd) |-> Unmarshal(db[<<kd, k>>].value)]]]

WriteOps == {"Set", "SetFn", "SetAll", "Delete"}


\* the calls of each operation, by its arguments
SetCalls == {[NoCall EXCEPT !.op = "Set", !.kind = kind, !.key = key, !.val = v] :
               kind \in Kinds, key \in Keys, v \in Values}
SetFnCalls == {[NoCall EXCEPT !.op = "SetFn", !.kind = kind, !.key = key, !.fn = fn] :
                 kind \in Kinds, key \in Keys, fn \in Fns}
SetAllCalls == {[NoCall EXCEPT !.op = "SetAll", !.kind = kind, !.vals = vs] :
                  kind \in Kinds, vs \in SetAllInputs}
DeleteCalls == {[NoCall EXCEPT !.op = "Delete", !.kind = kind, !.key = key] :
                  kind \in Kinds, key \in Keys}
GetCalls == {[NoCall EXCEPT !.op = "Get", !.kind = kind, !.key = key] :
               kind \in Kinds, key \in Keys}
KindReadCalls == {[NoCall EXCEPT !.op = op, !.kind = kind] :
                    op \in ReadOps \ {"Get"}, kind \in Kinds}
WatchCalls == {[NoCall EXCEPT !.op = "Watch", !.kind = kind, !.types = t, !.buf = b] :
                 kind \in Kinds, t \in WatchTypes, b \in WatchBufs}
CallsOf(op) == {c \in SetCalls \cup SetFnCalls \cup SetAllCalls \cup DeleteCalls
                      \cup GetCalls \cup KindReadCalls \cup WatchCalls : c.op = op}

\* the start of a call that does not look at s.closed
SqlCallUnchecked(p, op, nokind) ==
    /\ engine = "sql"
    /\ Calls(p, [NoCall EXCEPT !.op = op])
    /\ gh' = [gh EXCEPT ![p] = [NoGh EXCEPT !.afterClose = closeDone]]
    /\ IF op = "Watch" /\ nokind
       THEN /\ ret' = [ret EXCEPT ![p] = [NoRet EXCEPT !.err = ErrKindRequired]]
            /\ pc' = [pc EXCEPT ![p] = "done"]
       ELSE /\ ret' = [ret EXCEPT ![p] = NoRet]
            /\ pc' = [pc EXCEPT ![p] = CASE op \in WriteOps -> "tx"
                                          [] op \in ReadOps  -> "query"
                                          [] op = "Watch"    -> "reg"]
    /\ UNCHANGED <<engine, openTx, bound, replay, closed, memVars, sqlVars, chans, watcherID, loc, nmut,
                   lastSet, closeDone, fault>>

\* The start of Get, List, Count, Keys, Values, GetAll, Set, SetFn, SetAll,
\* Delete and Watch: the kind check of Watch, and the closed check under
\* s.mu.RLock, which is released before anything else is done.  The call's
\* arguments are not read before its transaction, query or registration, and
\* are drawn there.
SqlCall(p, op, nokind) ==
    /\ engine = "sql"
    /\ Calls(p, [NoCall EXCEPT !.op = op])
    /\ gh' = [gh EXCEPT ![p] = [NoGh EXCEPT !.afterClose = closeDone]]
    /\ IF op = "Watch" /\ nokind
       THEN /\ ret' = [ret EXCEPT ![p] = [NoRet EXCEPT !.err = ErrKindRequired]]
            /\ pc' = [pc EXCEPT ![p] = "done"]
       ELSE IF closed
       THEN /\ ret' = [ret EXCEPT ![p] = [NoRet EXCEPT !.err = ErrClosed]]
            /\ pc' = [pc EXCEPT ![p] = "done"]
       ELSE /\ ret' = [ret EXCEPT ![p] = NoRet]
            /\ pc' = [pc EXCEPT ![p] = CASE op \in WriteOps -> "tx"
                                          [] op \in ReadOps  -> "query"
                                          [] op = "Watch"    -> "reg"]
    /\ UNCHANGED <<engine, openTx, bound, replay, closed, memVars, sqlVars, chans, watcherID, loc, nmut,
                   lastSet, closeDone, fault>>

\* the transaction of the write call c at clock time t
SqlTxOut(c, t) ==
    CASE c.op = "Set"    -> SqlSetTx(c.kind, c.key, c.val, t)
      [] c.op = "SetFn"  -> SqlSetFnTx(c.kind, c.key, c.fn, t)
      [] c.op = "SetAll" -> SqlSetAllTx(c.kind, c.vals, t)
      [] c.op = "Delete" -> SqlDeleteTx(c.kind, c.key)

\* ---- failures inside a transaction
\* The places of Set, SetFn, SetAll and Delete, after db.Begin, at which a
\* statement, a row scan or the codec can fail, named after what fails there.
\* (The error of the transform of SetFn is part of SqlSetFnTx.)
TxSites(c) ==
    LET exists == <<c.kind, c.key>> \in DOMAIN db
    IN  CASE c.op = "Set" ->
               {"insert"} \cup (IF exists THEN {"scan"} ELSE {})
                          \cup (IF exists /\ db[<<c.kind, c.key>>].value # Marshal(c.val)
                                THEN {"update"} ELSE {})
          [] c.op = "SetFn" ->
               {"scan"} \cup (IF exists THEN {"unmarshal"} ELSE {})
                        \cup (IF exists /\ ~TransformFails(c.fn) THEN {"marshal"} ELSE {})
                        \cup (IF exists /\ ~TransformFails(c.fn)
                                 /\ db[<<c.kind, c.key>>].value
                                      # Marshal(Transform(c.fn, Unmarshal(db[<<c.kind, c.key>>].value)))
                              THEN {"update"} ELSE {})
          [] c.op = "SetAll" ->
               {"query", "prepare", "marshal", "upsert"}
                   \cup (IF SqlKeys(db, c.kind) # {} THEN {"scan"} ELSE {})
          [] c.op = "Delete" ->
               {"scan"} \cup (IF exists THEN {"unmarshal", "delete"} ELSE {})

\* the first statement of each operation that writes, and the places before it
FirstWrite(op) ==
    CASE op = "Set" -> "insert" [] op = "SetFn" -> "update"
      [] op = "SetAll" -> "upsert" [] op = "Delete" -> "delete"
BeforeWrite(op) ==
    CASE op = "Set" -> {} [] op = "SetFn" -> {"scan", "unmarshal", "marshal"}
      [] op = "SetAll" -> {"query", "scan", "prepare", "marshal"}
      [] op = "Delete" -> {"scan", "unmarshal"}

\* The transaction of call c runs a statement that writes: the INSERT of Set,
\* the upsert of SetAll, the UPDATE of SetFn and the DELETE of Delete.  It
\* cannot run while another transaction holds the write lock of the database.
WritesRows(c) ==
    \/ c.op \in {"Set", "SetAll"}
    \/ c.op = "SetFn" /\ "update" \in TxSites(c)
    \/ c.op = "Delete" /\ "delete" \in TxSites(c)

\* defer func() { _ = rollbackIfNeeded(tx, &err) }(): the transaction is
\* rolled back if the variable err declared with tx is non-nil when the
\* function returns.  That variable receives the error of tx.Exec(setQuery),
\* tx.Query, tx.Prepare, fn, and of Marshal in SetFn; the errors of row.Scan,
\* rows.Scan, Unmarshal, Marshal in the loop of SetAll, stmtIns.Exec and of
\* the UPDATE and DELETE statements are held by variables declared in an
\* inner scope (if err := ...; enc, err := ...; scanErr; err2).
RollsBack(op, site) ==
    \/ site \in {"insert", "query", "prepare"}
    \/ op = "SetFn" /\ site = "marshal"

\* the entries the loop of SetAll has upserted when it fails at the site:
\* those that come before the failing one in the order of the map iteration
Upserted(c, site) ==
    IF c.op = "SetAll" /\ site \in {"marshal", "upsert"}
    THEN {ks \in SUBSET DOMAIN c.vals : ks # DOMAIN c.vals}
    ELSE {{}}

\* the failed transaction holds the write lock of the database: the INSERT of
\* Set has run before its scan and its UPDATE, and SetAll has upserted entries
HoldsWriteLock(c, site, ks) ==
    \/ c.op = "Set" /\ site \in {"scan", "update"}
    \/ ks # {}

\* the table as the failed transaction has written it, seen from inside it
Partial(c, ks, t) ==
    LET touched == {<<c.kind, k>> : k \in ks}
    IN  [x \in (DOMAIN db) \cup touched |->
            IF x \notin touched THEN db[x]
            ELSE IF x \in DOMAIN db THEN UpsertRow(db[x], Marshal(c.vals[x[2]]), t)
            ELSE Row(Marshal(c.vals[x[2]]), 1, t)]

\* a database in which every statement is committed when it has run
AbortedKeepsWrites(committed, partial) == partial

\* what the other connections read after a transaction has failed: its
\* writes are not committed, whether it was rolled back or left open
Aborted(committed, partial) == committed

\* Set, SetFn, SetAll or Delete failing at one of the sites of its transaction
SqlTxFail(p) ==
    /\ engine = "sql" /\ Running /\ pc[p] = "tx" /\ dbOpen
    /\ \E c \in CallsOf(call[p].op) : \E site \in TxSites(c) : \E ks \in Upserted(c, site) :
         LET rb == RollsBack(c.op, site)
         IN  /\ openTx.writer => site \in BeforeWrite(c.op) \cup {FirstWrite(c.op)}
             /\ call' = [call EXCEPT ![p] = c]
             /\ db' = Aborted(db, Partial(c, ks, now + 1))
             /\ ret' = [ret EXCEPT ![p] = [NoRet EXCEPT !.err =
                          IF site \in {"marshal", "unmarshal"} THEN ErrCodec ELSE ErrStorage]]
             /\ openTx' = IF rb THEN openTx
                          ELSE [n |-> openTx.n + 1,
                                writer |-> openTx.writer \/ HoldsWriteLock(c, site, ks)]
             /\ gh' = [gh EXCEPT ![p] = [NoGh EXCEPT !.afterClose = gh[p].afterClose,
                                                     !.before = Registered(c.kind),
                                                     !.began = TRUE, !.left = ~rb]]
             /\ pc' = [pc EXCEPT ![p] = "done"]
             /\ loc' = [loc EXCEPT ![p] = NoLoc]
    /\ UNCHANGED <<engine, bound, replay, closed, memVars, maxVersion, dbOpen, subs, now, gen,
                   chans, watcherID, nops, nmut, lastSet, closeDone, fault>>

\* Set, SetFn, SetAll, Delete from db.Begin to tx.Commit, or to the error of
\* db.Begin when the database is closed; SQLite runs the transactions of one
\* database one after the other, and the clock has moved on since the last one
SqlTx(p) ==
    /\ engine = "sql" /\ Running /\ pc[p] = "tx"
    /\ \E c \in CallsOf(call[p].op) :
         LET t == now + 1
             out == IF ~dbOpen THEN [SqlKeep EXCEPT !.ret.err = ErrStorage]
                    ELSE SqlTxOut(c, t)
         IN  /\ openTx.writer => ~WritesRows(c)
             /\ call' = [call EXCEPT ![p] = c]
             /\ db' = out.db
             /\ maxVersion' = [x \in Cells |->
                    IF x \in DOMAIN out.db /\ out.db[x].version > maxVersion[x]
                    THEN out.db[x].version ELSE maxVersion[x]]
             /\ now' = IF out.db # db THEN t ELSE now
             /\ ret' = [ret EXCEPT ![p] = out.ret]
             /\ gh' = [gh EXCEPT ![p] = [out.gh EXCEPT !.afterClose = gh[p].afterClose,
                                                       !.pub = out.evs,
                                                       !.seq = IF out.gh.applied
                                                               THEN nmut + 1 ELSE 0,
                                                       !.before = Registered(c.kind),
                                                       !.began = dbOpen]]
             /\ nmut' = IF out.gh.applied THEN nmut + 1 ELSE nmut
             /\ lastSet' = out.last
             /\ pc' = [pc EXCEPT ![p] = IF out.evs = {} THEN "done" ELSE "publish"]
             /\ loc' = [loc EXCEPT ![p] = [NoLoc EXCEPT !.evs = out.evs]]
    /\ UNCHANGED <<engine, openTx, bound, replay, closed, memVars, dbOpen, subs, gen, chans, watcherID,
                   nops, closeDone, fault>>

\* the subscribers of every kind
SubscribersOfAnyKind(kind) == UNION {subs.m[k] : k \in DOMAIN subs.m}

\* s.subs[kind], which ranges over nothing when s.subs is nil
Subscribers(kind) ==
    IF subs.isNil \/ kind \notin DOMAIN subs.m THEN {} ELSE subs.m[kind]

\* sqLiteStore.publish for the next event of the call (SetAll publishes its
\* creates, then its updates): the loop over s.subs[kind] under
\* s.muSubs.RLock; a send on a channel that has been closed panics.
\* the loop of publish leaving at the first subscriber whose queue is full
PublishToUntilFull(ch, ws, e) ==
    IF \E w \in ws : Wants(w, e.type) /\ Len(ch[w].q) >= ch[w].cap
    THEN ch
    ELSE [w \in DOMAIN ch |-> IF w \in ws /\ Wants(w, e.type) THEN TrySend(ch[w], e) ELSE ch[w]]

\* the loop over s.subs[kind] in publish
PublishTo(ch, ws, e) ==
    [w \in DOMAIN ch |-> IF w \in ws /\ Wants(w, e.type) THEN TrySend(ch[w], e) ELSE ch[w]]

SqlPublish(p) ==
    /\ engine = "sql" /\ Running /\ pc[p] = "publish"
    /\ \E e \in NextEvents(loc[p].evs) :
         LET rest == loc[p].evs \ {e}
             ws == {w \in Subscribers(e.kind) : Wants(w, e.type)}
         IN  IF \E w \in ws : chans[w].closed
             THEN /\ fault' = "send on closed channel"
                  /\ pc' = [pc EXCEPT ![p] = "panic"]
                  /\ UNCHANGED <<chans, gh, loc>>
             ELSE /\ chans' = PublishTo(chans, Subscribers(e.kind), e)
                  /\ gh' = [gh EXCEPT ![p].tried = @ \cup (ws \X {e.key}),
                                        ![p].drops = @ \cup (Full(ws) \X {e.key})]
                  /\ loc' = [loc EXCEPT ![p] = [NoLoc EXCEPT !.evs = rest]]
                  /\ pc' = [pc EXCEPT ![p] = IF rest = {} THEN "done" ELSE "publish"]
                  /\ UNCHANGED fault
    /\ UNCHANGED <<engine, openTx, bound, replay, closed, memVars, sqlVars, watcherID, call, ret, nops,
                   nmut, lastSet, closeDone>>

\* the query of a read call, which fails when the database has been closed
SqlQuery(p) ==
    /\ engine = "sql" /\ Running /\ pc[p] = "query"
    /\ \E c \in CallsOf(call[p].op) :
         /\ call' = [call EXCEPT ![p] = c]
         /\ ret' = [ret EXCEPT ![p] = IF ~dbOpen THEN [NoRet EXCEPT !.err = ErrStorage]
                                      ELSE SqlReadOut(c.op, c.kind, c.key)]
    /\ pc' = [pc EXCEPT ![p] = "done"]
    /\ UNCHANGED <<engine, openTx, bound, replay, closed, memVars, sqlVars, chans, watcherID, loc, gh,
                   nops, nmut, lastSet, closeDone, fault>>

\* sqLiteStore.Watch, the section under s.muSubs.Lock: s.subs[kind][w] =
\* struct{}{}, which panics when Close has set s.subs to nil
SqlWatchRegCfg(p, initial) ==
    /\ engine = "sql" /\ Running /\ pc[p] = "reg"
    /\ \E c \in WatchCalls :
         LET id == watcherID + 1
         IN  IF subs.isNil
             THEN /\ fault' = "assignment to entry in nil map"
                  /\ pc' = [pc EXCEPT ![p] = "panic"]
                  /\ UNCHANGED <<subs, chans, watcherID, ret, call, replay>>
             ELSE /\ call' = [call EXCEPT ![p] = c]
                  /\ replay' = IF initial
                               THEN Put(replay, id, NewReplay(EmptyMap,
                                        IF SendInitial(c.types) THEN "check" ELSE "done",
                                        SqlReadOut("List", c.kind, "").data))
                               ELSE replay
                  /\ subs' = [subs EXCEPT !.m = Put(@, c.kind, Subscribers(c.kind) \cup {id})]
                  /\ chans' = Put(chans, id, NewWatcher(c.kind, c.types, c.buf))
                  /\ watcherID' = id
                  /\ ret' = [ret EXCEPT ![p] = [NoRet EXCEPT !.ok = TRUE, !.val = id]]
                  /\ pc' = [pc EXCEPT ![p] = "done"]
                  /\ UNCHANGED fault
    /\ UNCHANGED <<engine, openTx, bound, closed, memVars, db, maxVersion, dbOpen, now, gen, loc, gh,
                   nops, nmut, lastSet, closeDone>>

\* Watch without and with WithInitialReplay
SqlWatchReg(p) == SqlWatchRegCfg(p, FALSE)
SqlWatchRegInitial(p) == SqlWatchRegCfg(p, TRUE)

\* One step of the goroutine of the initial replay of watcher w.
\* memStore: select { case wch.ch <- ev: case <-doneCh: return }, for the
\* entries of the snapshot in no fixed order; the send waits for room in the
\* queue; on a channel that has been closed the send panics, and when cancel
\* has closed doneCh as well the select takes either of its two cases.
\* sqLiteStore: m, err := s.List(kind), which returns ErrClosed when the
\* store is closed and fails when the database is closed, and then for each
\* entry select { case w.ch <- ev: default: }, which panics on a closed
\* channel.
ReplayEvent(w, k, v) == Event(chans[w].kind, k, EventTypeCreate, v, 0, "Watch")

ReplayMem(w) ==
    \E k \in DOMAIN replay[w].todo :
        LET rest == Del(replay[w].todo, k)
        IN  IF chans[w].closed
            THEN \/ /\ fault' = "send on closed channel"
                    /\ UNCHANGED <<chans, replay>>
                 \/ /\ replay[w].doneCh
                    /\ replay' = [replay EXCEPT ![w].todo = EmptyMap, ![w].phase = "done"]
                    /\ UNCHANGED <<chans, fault>>
            ELSE /\ Len(chans[w].q) < chans[w].cap
                 /\ chans' = [chans EXCEPT ![w].q = Append(@, ReplayEvent(w, k, replay[w].todo[k]))]
                 /\ replay' = [replay EXCEPT ![w].todo = rest,
                                             ![w].phase = IF rest = EmptyMap THEN "done" ELSE "send"]
                 /\ UNCHANGED fault

ReplaySql(w) ==
    CASE replay[w].phase = "check" ->
           /\ replay' = [replay EXCEPT ![w].phase = IF closed THEN "done" ELSE "query"]
           /\ UNCHANGED <<chans, fault>>
      [] replay[w].phase = "query" ->
           LET m == SqlReadOut("List", chans[w].kind, "").data
           IN  /\ replay' = [replay EXCEPT
                     ![w].todo = IF dbOpen THEN m ELSE EmptyMap,
                     ![w].phase = IF dbOpen /\ m # EmptyMap THEN "send" ELSE "done"]
               /\ UNCHANGED <<chans, fault>>
      [] replay[w].phase = "send" ->
           \E k \in DOMAIN replay[w].todo :
               LET rest == Del(replay[w].todo, k)
               IN  IF chans[w].closed
                   THEN /\ fault' = "send on closed channel"
                        /\ UNCHANGED <<chans, replay>>
                   ELSE /\ chans' = [chans EXCEPT ![w] =
                                        TrySend(@, ReplayEvent(w, k, replay[w].todo[k]))]
                        /\ replay' = [replay EXCEPT ![w].todo = rest,
                                         ![w].phase = IF rest = EmptyMap THEN "done" ELSE "send"]
                        /\ UNCHANGED fault

Replay(w) ==
    /\ Running
    /\ w \in DOMAIN replay /\ replay[w].phase # "done"
    /\ IF engine = "mem" THEN ReplayMem(w) ELSE ReplaySql(w)
    /\ UNCHANGED <<engine, openTx, bound, closed, memVars, sqlVars, watcherID, pc, call, ret, loc, gh,
                   nops, nmut, lastSet, closeDone>>

\* a cancel function that closes the channel and leaves it in s.subs
SqlCancelKeepsSubscription(p, w) ==
    /\ engine = "sql"
    /\ Calls(p, [NoCall EXCEPT !.op = "cancel", !.w = w])
    /\ LET kind == chans[w].kind
           found == CancelFinds(Subscribers(kind), w)
           left == Subscribers(kind) \ {w}
       IN  IF ~found
           THEN /\ pc' = [pc EXCEPT ![p] = "done"]
                /\ UNCHANGED <<subs, chans, fault>>
           ELSE IF chans[w].closed
           THEN /\ fault' = "close of closed channel"
                /\ pc' = [pc EXCEPT ![p] = "panic"]
                /\ UNCHANGED <<subs, chans>>
           ELSE /\ subs' = subs
                /\ chans' = CloseAll(chans, {w})
                /\ pc' = [pc EXCEPT ![p] = "done"]
                /\ UNCHANGED fault
    /\ ret' = [ret EXCEPT ![p] = NoRet]
    /\ gh' = [gh EXCEPT ![p] = [NoGh EXCEPT !.afterClose = closeDone]]
    /\ UNCHANGED <<engine, openTx, bound, replay, closed, memVars, db, maxVersion, dbOpen, now, gen, watcherID, loc,
                   nmut, lastSet, closeDone>>

\* the cancel function sqLiteStore.Watch returns, for watcher w: the section
\* under s.muSubs.Lock
SqlCancel(p, w) ==
    /\ engine = "sql"
    /\ Calls(p, [NoCall EXCEPT !.op = "cancel", !.w = w])
    /\ LET kind == chans[w].kind
           found == CancelFinds(Subscribers(kind), w)
           left == Subscribers(kind) \ {w}
       IN  IF ~found
           THEN /\ pc' = [pc EXCEPT ![p] = "done"]
                /\ UNCHANGED <<subs, chans, fault>>
           ELSE IF chans[w].closed
           THEN /\ fault' = "close of closed channel"
                /\ pc' = [pc EXCEPT ![p] = "panic"]
                /\ UNCHANGED <<subs, chans>>
           ELSE /\ subs' = [subs EXCEPT !.m = IF left = {} THEN Del(@, kind)
                                              ELSE Put(@, kind, left)]
                /\ chans' = CloseAll(chans, {w})
                /\ pc' = [pc EXCEPT ![p] = "done"]
                /\ UNCHANGED fault
    /\ ret' = [ret EXCEPT ![p] = NoRet]
    /\ gh' = [gh EXCEPT ![p] = [NoGh EXCEPT !.afterClose = closeDone]]
    /\ UNCHANGED <<engine, openTx, bound, replay, closed, memVars, db, maxVersion, dbOpen, now, gen, watcherID, loc,
                   nmut, lastSet, closeDone>>

\* sqLiteStore.Close, the section under s.mu.Lock: a repeated Close returns nil
SqlClose(p) ==
    /\ engine = "sql"
    /\ Calls(p, [NoCall EXCEPT !.op = "Close"])
    /\ closed' = TRUE
    /\ pc' = [pc EXCEPT ![p] = IF closed THEN "done" ELSE "closesubs"]
    /\ closeDone' = (closeDone \/ closed)
    /\ ret' = [ret EXCEPT ![p] = NoRet]
    /\ gh' = [gh EXCEPT ![p] = [NoGh EXCEPT !.afterClose = closeDone]]
    /\ UNCHANGED <<engine, openTx, bound, replay, memVars, sqlVars, chans, watcherID, loc, nmut, lastSet, fault>>

\* sqLiteStore.Close, the section under s.muSubs.Lock: close every watcher's
\* channel, s.subs = nil
SqlCloseSubs(p) ==
    /\ engine = "sql" /\ Running /\ pc[p] = "closesubs"
    /\ LET all == UNION {subs.m[k] : k \in DOMAIN subs.m}
       IN  IF \E w \in all : chans[w].closed
           THEN /\ fault' = "close of closed channel"
                /\ pc' = [pc EXCEPT ![p] = "panic"]
                /\ UNCHANGED <<subs, chans>>
           ELSE /\ chans' = CloseAll(chans, all)
                /\ subs' = [isNil |-> TRUE, m |-> EmptyMap]
                /\ pc' = [pc EXCEPT ![p] = "closedb"]
                /\ UNCHANGED fault
    /\ UNCHANGED <<engine, openTx, bound, replay, closed, memVars, db, maxVersion, dbOpen, now, gen, watcherID, call,
                   ret, loc, gh, nops, nmut, lastSet, closeDone>>

\* sqLiteStore.Close: return s.db.Close()
SqlCloseDb(p) ==
    /\ engine = "sql" /\ Running /\ pc[p] = "closedb"
    /\ dbOpen' = FALSE
    /\ closeDone' = TRUE
    /\ pc' = [pc EXCEPT ![p] = "done"]
    /\ UNCHANGED <<engine, openTx, bound, replay, closed, memVars, db, maxVersion, subs, now, gen, chans, watcherID,
                   call, ret, loc, gh, nops, nmut, lastSet, fault>>

\* sqlite.New on the DSN of a store that was closed: a new store on the same
\* table, with no watchers; the new store is called at least once
Reopen ==
    /\ engine = "sql" /\ Running
    /\ closed /\ ~dbOpen
    /\ \A p \in Procs : pc[p] = "idle"
    /\ gen < MaxGen
    /\ gen' = gen + 1
    /\ closed' = FALSE
    /\ dbOpen' = TRUE
    /\ subs' = [isNil |-> FALSE, m |-> EmptyMap]
    /\ closeDone' = FALSE
    /\ nops' = IF nops = bound.ops THEN bound.ops - 1 ELSE nops
    /\ UNCHANGED <<engine, openTx, bound, replay, memVars, db, maxVersion, now, chans, watcherID, pc, call, ret, loc,
                   gh, nmut, lastSet, fault>>

NextSql ==
    \/ \E p \in Procs, op \in WriteOps \cup ReadOps \cup {"Watch"} : SqlCall(p, op, FALSE)
    \/ \E p \in Procs : SqlCall(p, "Watch", TRUE)
    \/ \E p \in Procs : SqlTx(p)
    \/ \E p \in Procs : SqlPublish(p)
    \/ \E p \in Procs : SqlQuery(p)
    \/ \E p \in Procs : SqlWatchReg(p)
    \/ \E p \in Procs, w \in DOMAIN chans : SqlCancel(p, w)
    \/ \E p \in Procs : SqlClose(p)
    \/ \E p \in Procs : SqlCloseSubs(p)
    \/ \E p \in Procs : SqlCloseDb(p)
    \/ Reopen

Next ==
    \/ NextMem
    \/ NextSql
    \/ \E w \in DOMAIN chans : Recv(w)
    \/ \E p \in Procs : Return(p)

Spec == Init /\ [][Next]_vars

\* Several watchers of one kind, and the writes Set and Delete: no reads, no
\* cancel and no Close.
InitFan ==
    /\ bound = [ops |-> MaxOps, watchers |-> MaxFanWatchers, kinds |-> OneKind, keys |-> TwoKeys,
               types |-> SomeTypes]
    /\ (InitMem \/ InitSql)

NextFan ==
    \/ \E p \in Procs, kind \in Kinds, key \in Keys, v \in Values : MemSet(p, kind, key, v)
    \/ \E p \in Procs, kind \in Kinds, key \in Keys : MemDelete(p, kind, key)
    \/ \E p \in Procs, kind \in Kinds, t \in WatchTypes, b \in WatchBufs :
          MemWatch(p, kind, t, b)
    \/ \E p \in Procs : MemFanout(p)
    \/ \E p \in Procs, op \in {"Set", "Delete", "Watch"} : SqlCall(p, op, FALSE)
    \/ \E p \in Procs : SqlTx(p)
    \/ \E p \in Procs : SqlPublish(p)
    \/ \E p \in Procs : SqlWatchReg(p)
    \/ \E w \in DOMAIN chans : Recv(w)
    \/ \E p \in Procs : Return(p)

SpecFan == InitFan /\ [][NextFan]_vars

\* The writes of both engines with the failures of the durable engine's
\* transactions and, in memStore, the rejections of the validation function:
\* no reads, no cancel and no Close.
NextFail ==
    \/ \E p \in Procs, kind \in Kinds, key \in Keys, v \in Values : MemSet(p, kind, key, v)
    \/ \E p \in Procs, kind \in Kinds, vs \in SetAllInputs : MemSetAll(p, kind, vs)
    \/ \E p \in Procs, kind \in Kinds, key \in Keys : MemDelete(p, kind, key)
    \/ \E p \in Procs, kind \in Kinds, key \in Keys, fn \in Fns : MemSetFn(p, kind, key, fn)
    \/ \E p \in Procs, kind \in Kinds, t \in WatchTypes, b \in WatchBufs :
          MemWatch(p, kind, t, b)
    \/ \E p \in Procs : MemFanout(p)
    \/ \E p \in Procs, op \in WriteOps \cup {"Watch"} : SqlCall(p, op, FALSE)
    \/ \E p \in Procs : SqlTx(p)
    \/ \E p \in Procs : SqlTxFail(p)
    \/ \E p \in Procs : SqlPublish(p)
    \/ \E p \in Procs : SqlWatchReg(p)
    \/ \E w \in DOMAIN chans : Recv(w)
    \/ \E p \in Procs : Return(p)

SpecFail == Init /\ [][NextFail]_vars

\* Watch with WithInitialReplay, after and during calls of Set,
\* with a consumer that has not yet started to receive.
\* The goroutine of the replay is scheduled like every goroutine (weak
\* fairness of its steps), and a call that has reached its return returns.
WatcherIds == 1..MaxWatchers

NextReplay ==
    \/ \E p \in Procs, kind \in Kinds, key \in Keys, v \in Values : MemSet(p, kind, key, v)
    \/ \E p \in Procs, kind \in Kinds, t \in WatchTypes, b \in WatchBufs :
          MemWatchInitial(p, kind, t, b)
    \/ \E p \in Procs : MemFanout(p)
    \/ \E p \in Procs, op \in {"Set", "Watch"} : SqlCall(p, op, FALSE)
    \/ \E p \in Procs : SqlTx(p)
    \/ \E p \in Procs : SqlPublish(p)
    \/ \E p \in Procs : SqlWatchRegInitial(p)
    \/ \E w \in WatcherIds : Replay(w)
    \/ \E p \in Procs : Return(p)

SpecReplay ==
    /\ Init /\ [][NextReplay]_vars
    /\ \A w \in WatcherIds : WF_vars(Replay(w))
    /\ \A p \in Procs : WF_vars(Return(p))

\* Two kinds and two watchers on stores built with the default options: Set,
\* Watch and the cancel functions of both engines, with consumers that
\* receive.
InitCancel ==
    /\ bound = [ops |-> MaxOps, watchers |-> MaxFanWatchers, kinds |-> TwoKinds, keys |-> OneKey,
               types |-> SomeTypes]
    /\ (InitMem \/ InitSql)
    /\ compareFn = "deep" /\ validationFns = EmptyMap /\ db = EmptyMap

NextCancel ==
    \/ \E p \in Procs, kind \in Kinds, key \in Keys, v \in Values : MemSet(p, kind, key, v)
    \/ \E p \in Procs, kind \in Kinds : MemWatch(p, kind, NilTypes, 0)
    \/ \E p \in Procs, w \in DOMAIN chans : MemCancel(p, w)
    \/ \E p \in Procs : MemFanout(p)
    \/ \E p \in Procs, op \in {"Set", "Watch"} : SqlCall(p, op, FALSE)
    \/ \E p \in Procs : SqlTx(p)
    \/ \E p \in Procs : SqlPublish(p)
    \/ \E p \in Procs : SqlWatchReg(p)
    \/ \E p \in Procs, w \in DOMAIN chans : SqlCancel(p, w)
    \/ \E w \in DOMAIN chans : Recv(w)
    \/ \E p \in Procs : Return(p)

SpecCancel == InitCancel /\ [][NextCancel]_vars

\* Two kinds and one watcher on stores built with the default options: the
\* four writes and Watch of both engines, with a consumer that receives.
InitKinds ==
    /\ bound = [ops |-> MaxOps, watchers |-> MaxWatchers, kinds |-> TwoKinds, keys |-> OneKey,
               types |-> SomeTypes]
    /\ (InitMem \/ InitSql)
    /\ compareFn = "deep" /\ validationFns = EmptyMap /\ db = EmptyMap

NextKinds ==
    \/ \E p \in Procs, kind \in Kinds, key \in Keys, v \in Values : MemSet(p, kind, key, v)
    \/ \E p \in Procs, kind \in Kinds, vs \in SetAllInputs : MemSetAll(p, kind, vs)
    \/ \E p \in Procs, kind \in Kinds, key \in Keys : MemDelete(p, kind, key)
    \/ \E p \in Procs, kind \in Kinds, key \in Keys, fn \in Fns : MemSetFn(p, kind, key, fn)
    \/ \E p \in Procs, kind \in Kinds : MemWatch(p, kind, NilTypes, 0)
    \/ \E p \in Procs : MemFanout(p)
    \/ \E p \in Procs, op \in WriteOps \cup {"Watch"} : SqlCall(p, op, FALSE)
    \/ \E p \in Procs : SqlTx(p)
    \/ \E p \in Procs : SqlPublish(p)
    \/ \E p \in Procs : SqlWatchReg(p)
    \/ \E w \in DOMAIN chans : Recv(w)
    \/ \E p \in Procs : Return(p)

SpecKinds == InitKinds /\ [][NextKinds]_vars

\* Watch with WithInitialReplay, Set, the cancel functions and Close of both
\* engines, with a consumer that has not yet started to receive.
NextStop ==
    \/ \E p \in Procs, kind \in Kinds, key \in Keys, v \in Values : MemSet(p, kind, key, v)
    \/ \E p \in Procs, kind \in Kinds, t \in WatchTypes, b \in WatchBufs :
          MemWatchInitial(p, kind, t, b)
    \/ \E p \in Procs, w \in DOMAIN chans : MemCancel(p, w)
    \/ \E p \in Procs : MemClose(p)
    \/ \E p \in Procs : MemFanout(p)
    \/ \E p \in Procs, op \in {"Set", "Watch"} : SqlCall(p, op, FALSE)
    \/ \E p \in Procs : SqlTx(p)
    \/ \E p \in Procs : SqlPublish(p)
    \/ \E p \in Procs : SqlWatchRegInitial(p)
    \/ \E p \in Procs, w \in DOMAIN chans : SqlCancel(p, w)
    \/ \E p \in Procs : SqlClose(p)
    \/ \E p \in Procs : SqlCloseSubs(p)
    \/ \E p \in Procs : SqlCloseDb(p)
    \/ \E w \in WatcherIds : Replay(w)
    \/ \E p \in Procs : Return(p)

SpecStop == Init /\ [][NextStop]_vars

\* Watch with WithInitialReplay and an event-type filter, after and during
\* calls of Set, with a consumer that has not yet started to receive.
InitFilter ==
    /\ bound = [ops |-> MaxOps, watchers |-> MaxWatchers, kinds |-> OneKind, keys |-> TwoKeys,
               types |-> FilteredTypes]
    /\ (InitMem \/ InitSql)

SpecFilter == InitFilter /\ [][NextReplay]_vars


\* One entry and one watcher on stores built with the default options: Set,
\* SetFn and Watch of both engines by concurrent callers, with the failures
\* of the durable engine's transactions, and one call more than elsewhere so
\* that two calls of SetFn can meet on an entry that a Set has created.
MaxFnOps == MaxOps + 1

InitFn ==
    /\ bound = [ops |-> MaxFnOps, watchers |-> MaxWatchers, kinds |-> OneKind, keys |-> OneKey,
               types |-> SomeTypes]
    /\ (InitMem \/ InitSql)
    /\ compareFn = "deep" /\ validationFns = EmptyMap

NextFn ==
    \/ \E p \in Procs, kind \in Kinds, key \in Keys, v \in Values : MemSet(p, kind, key, v)
    \/ \E p \in Procs, kind \in Kinds, key \in Keys, fn \in Fns : MemSetFn(p, kind, key, fn)
    \/ \E p \in Procs, kind \in Kinds : MemWatch(p, kind, NilTypes, 0)
    \/ \E p \in Procs : MemFanout(p)
    \/ \E p \in Procs, op \in {"Set", "SetFn", "Watch"} : SqlCall(p, op, FALSE)
    \/ \E p \in Procs : SqlTx(p)
    \/ \E p \in Procs : SqlTxFail(p)
    \/ \E p \in Procs : SqlPublish(p)
    \/ \E p \in Procs : SqlWatchReg(p)
    \/ \E p \in Procs : Return(p)

SpecFn == InitFn /\ [][NextFn]_vars

\* An in-memory store and a durable store side by side, both built with the
\* default options and empty, and one caller that makes every call on both:
\* first on the in-memory store (its critical section, then its fan-out),
\* then on the durable store (its transaction, then publish).  The calls are
\* made one after the other; call and ret hold the call and its two results,
\* that of the in-memory store first.  Each call carries at most one event
\* (one key), so that the fan-out of a call is one loop over the watchers.
InitBoth ==
    /\ bound = [ops |-> MaxFnOps, watchers |-> MaxFanWatchers, kinds |-> TwoKinds,
                keys |-> OneKey, types |-> SomeTypes]
    /\ InitCommon
    /\ engine = "both"
    /\ compareFn = "deep" /\ validationFns = EmptyMap
    /\ kinds = EmptyMap /\ watchers = EmptyMap
    /\ db = EmptyMap /\ dbOpen = TRUE
    /\ maxVersion = [c \in Cells |-> 0]
    /\ subs = [isNil |-> FALSE, m |-> EmptyMap]

\* the loop over the watchers for the event of a call, if it has one
FanoutOne(ch, ws, evs) ==
    IF evs = {} THEN ch ELSE PublishTo(ch, ws, CHOOSE e \in evs : TRUE)

\* a write call c on both stores, mem and sql being what its critical section
\* and its transaction leave behind
BothWrite(c, mem, sql) ==
    /\ engine = "both" /\ Running
    /\ nops < bound.ops /\ nops' = nops + 1
    /\ call' = [p \in Procs |-> c]
    /\ ret' = [p \in Procs |-> IF p = 1 THEN mem.ret ELSE sql.ret]
    /\ kinds' = mem.kinds
    /\ watchers' = mem.watchers
    /\ db' = sql.db
    /\ maxVersion' = [x \in Cells |->
           IF x \in DOMAIN sql.db /\ sql.db[x].version > maxVersion[x]
           THEN sql.db[x].version ELSE maxVersion[x]]
    /\ now' = IF sql.db # db THEN now + 1 ELSE now
    /\ chans' = FanoutOne(FanoutOne(chans, mem.wchs, mem.evs), Subscribers(c.kind), sql.evs)
    /\ nmut' = IF mem.gh.applied \/ sql.gh.applied THEN nmut + 1 ELSE nmut
    /\ lastSet' = mem.last
    /\ UNCHANGED <<engine, openTx, bound, replay, compareFn, validationFns, closed, dbOpen, subs,
                   watcherID, pc, loc, gh, closeDone, gen, fault>>

BothSet == \E c \in SetCalls :
    BothWrite(c, MemSetOut(c.kind, c.key, c.val), SqlTxOut(c, now + 1))
BothSetAll == \E c \in SetAllCalls :
    BothWrite(c, MemSetAllOut(c.kind, c.vals), SqlTxOut(c, now + 1))
BothSetFn == \E c \in SetFnCalls :
    BothWrite(c, MemSetFnOut(c.kind, c.key, c.fn), SqlTxOut(c, now + 1))
BothDelete == \E c \in DeleteCalls :
    BothWrite(c, MemDeleteOut(c.kind, c.key), SqlTxOut(c, now + 1))

\* Watch(kind) with no option on both stores
BothWatch ==
    \E kind \in Kinds :
        LET c == [NoCall EXCEPT !.op = "Watch", !.kind = kind, !.types = NilTypes]
            mem == MemWatchOut(kind, NilTypes, 0)
            id == mem.watcherID + 1
        IN  /\ engine = "both" /\ Running
            /\ id <= bound.watchers
            /\ call' = [p \in Procs |-> c]
            /\ ret' = [p \in Procs |-> IF p = 1 THEN mem.ret
                                       ELSE [NoRet EXCEPT !.ok = TRUE, !.val = id]]
            /\ kinds' = mem.kinds
            /\ watchers' = mem.watchers
            /\ subs' = [subs EXCEPT !.m = Put(@, kind, Subscribers(kind) \cup {id})]
            /\ chans' = Put(mem.chans, id, NewWatcher(kind, NilTypes, 0))
            /\ watcherID' = id
            /\ UNCHANGED <<engine, openTx, bound, replay, compareFn, validationFns, closed, db,
                           dbOpen, now, pc, loc, gh, nops, nmut, lastSet, closeDone, gen,
                           maxVersion, fault>>

NextBoth == BothSet \/ BothSetAll \/ BothSetFn \/ BothDelete \/ BothWatch

SpecBoth == InitBoth /\ [][NextBoth]_vars

\* The calls of both engines made by goroutines that are scheduled: a call
\* that can take its next step (its fan-out, its transaction, its query,
\* publish, the registration of its watcher, the steps of Close, its return)
\* takes it in the end.  Each of these steps changes pc or loc.  The
\* fairness is strong because a step of one goroutine is not enabled at the
\* instant at which the call of another returns (Running), an instant that
\* holds no goroutine up.  Nothing makes a caller start a call and nothing
\* makes a consumer receive.  The reads are Get, List and GetAll.
LiveReads == {"List", "GetAll"}

NextLive ==
    \/ \E p \in Procs, kind \in Kinds, key \in Keys, v \in Values : MemSet(p, kind, key, v)
    \/ \E p \in Procs, kind \in Kinds, vs \in SetAllInputs : MemSetAll(p, kind, vs)
    \/ \E p \in Procs, kind \in Kinds, key \in Keys : MemDelete(p, kind, key)
    \/ \E p \in Procs, kind \in Kinds, key \in Keys, fn \in Fns : MemSetFn(p, kind, key, fn)
    \/ \E p \in Procs, kind \in Kinds, key \in Keys : MemRead(p, "Get", kind, key)
    \/ \E p \in Procs, op \in LiveReads, kind \in Kinds : MemRead(p, op, kind, "")
    \/ \E p \in Procs, kind \in Kinds, t \in WatchTypes, b \in WatchBufs :
          MemWatch(p, kind, t, b)
    \/ \E p \in Procs, w \in DOMAIN chans : MemCancel(p, w)
    \/ \E p \in Procs : MemClose(p)
    \/ \E p \in Procs : MemFanout(p)
    \/ \E p \in Procs, op \in WriteOps \cup LiveReads \cup {"Get", "Watch"} :
          SqlCall(p, op, FALSE)
    \/ \E p \in Procs : SqlTx(p)
    \/ \E p \in Procs : SqlPublish(p)
    \/ \E p \in Procs : SqlQuery(p)
    \/ \E p \in Procs : SqlWatchReg(p)
    \/ \E p \in Procs, w \in DOMAIN chans : SqlCancel(p, w)
    \/ \E p \in Procs : SqlClose(p)
    \/ \E p \in Procs : SqlCloseSubs(p)
    \/ \E p \in Procs : SqlCloseDb(p)
    \/ \E w \in DOMAIN chans : Recv(w)
    \/ \E p \in Procs : Return(p)

StepOf(p) ==
    \/ MemFanout(p) \/ SqlTx(p) \/ SqlPublish(p) \/ SqlQuery(p) \/ SqlWatchReg(p)
    \/ SqlCloseSubs(p) \/ SqlCloseDb(p) \/ Return(p)

SpecLive == Init /\ [][NextLive]_vars /\ \A p \in Procs : SF_<<pc, loc>>(StepOf(p))

\* ============================================================ properties
\* a call of goroutine p is at the instant of its return
Done(p) == pc[p] = "done"
Updates(evs) == {e \in evs : e.type = EventTypeUpdate}
Creates(evs) == {e \in evs : e.type = EventTypeCreate}
EventKeys(evs) == {e.key : e \in evs}
\* what Get(kind, key) returns in the current state of an open store
GetNow(kind, key) ==
    IF engine = "mem" THEN MemReadOut("Get", kind, key).ret
    ELSE SqlReadOut("Get", kind, key)
Readable == IF engine = "mem" THEN ~closed ELSE dbOpen

\* C1: in both engines, for every value (the zero value included) and every
\* compare function, a Set on an absent key returns created = true and hands a
\* create event to the fan-out; a Set of the value the previous Set of the key
\* wrote, with no mutation of the key in between, returns created = false and
\* emits no event.
C1_SetCreatesThenNoOp ==
    \A p \in Procs :
        Done(p) /\ call[p].op = "Set" /\ ret[p].err = ErrNil =>
            /\ gh[p].absent =>
                 /\ ret[p].ok
                 /\ \E e \in Creates(gh[p].pub) :
                        e.key = call[p].key /\ e.obj = call[p].val
            /\ ~gh[p].absent /\ gh[p].again => ~ret[p].ok /\ gh[p].pub = {}

\* C2: after a successful Set(K,k,v) and until the next mutation of (K,k), Get
\* returns (v, true, nil): both what a Get call returns, and what a Get would
\* return in every state in which the store can be read, the states after
\* Close and a re-open included.
C2_GetReturnsLastSet ==
    /\ \A p \in Procs :
          Done(p) /\ call[p].op = "Get" /\ ret[p].err = ErrNil
                  /\ lastSet[<<call[p].kind, call[p].key>>] # NoVal =>
              ret[p].ok /\ ret[p].val = lastSet[<<call[p].kind, call[p].key>>]
    /\ \A c \in Cells :
          lastSet[c] # NoVal /\ Readable =>
              GetNow(c[1], c[2]) = [NoRet EXCEPT !.ok = TRUE, !.val = lastSet[c]]

\* a Get of the re-opened durable store returns the value that a Set wrote
\* before the store was closed
C2_Witness ==
    \E p \in Procs :
        /\ engine = "sql" /\ gen > 0
        /\ Done(p) /\ call[p].op = "Get" /\ ret[p].err = ErrNil
        /\ lastSet[<<call[p].kind, call[p].key>>] # NoVal
        /\ ret[p].ok

\* C3: the events of Set, SetFn and Delete for one key that a watcher's
\* channel holds are in the order in which these mutations of the key were
\* applied or committed.
C3_EventsInMutationOrder ==
    \A w \in DOMAIN chans :
        \A i, j \in 1..Len(chans[w].q) :
            /\ i < j
            /\ chans[w].q[i].key = chans[w].q[j].key
            /\ {chans[w].q[i].op, chans[w].q[j].op} \subseteq {"Set", "SetFn", "Delete"}
            => chans[w].q[i].seq < chans[w].q[j].seq

\* C4: once Close has marked the store closed, no operation commits or applies
\* a mutation, publishes an event, or completes a read with data.
C4_ClosedCheckAtomic ==
    [][closed =>
          /\ db' = db
          /\ kinds' = kinds
          /\ \A w \in DOMAIN chans : Len(chans'[w].q) <= Len(chans[w].q)
          /\ \A p \in Procs :
                pc[p] # "done" /\ pc'[p] = "done" /\ call'[p].op \in ReadOps =>
                    ret'[p].err # ErrNil]_vars

\* C5: a call of Get, List, Count, Keys, Values, GetAll, Set, SetFn, SetAll or
\* Delete made after Close has returned returns the closed error and no data,
\* changes no entry and emits no event.
C5_CallsAfterCloseFail ==
    \A p \in Procs :
        Done(p) /\ gh[p].afterClose /\ call[p].op \in ReadOps \cup WriteOps =>
            /\ ret[p].err = ErrClosed
            /\ ~ret[p].ok /\ ret[p].val = NoVal /\ ret[p].data = EmptyMap
            /\ ~gh[p].applied
            /\ gh[p].pub = {}

\* a write call made after Close has returned is at its return
C5_Witness ==
    \E p \in Procs :
        Done(p) /\ gh[p].afterClose /\ call[p].op \in WriteOps /\ ret[p].err = ErrClosed

\* C6: after Close has returned no watcher channel is open, and a Watch that
\* overlaps Close never faults.
C6_CloseClosesEveryWatcher ==
    /\ closeDone => \A w \in DOMAIN chans : chans[w].closed
    /\ fault # "assignment to entry in nil map"

\* C7: over every interleaving of cancel and Close calls no channel is closed
\* twice, the channel of a watcher whose cancel has returned is closed, and
\* Close, repeated or not, returns no error.
C7_ChannelClosedOnce ==
    /\ fault # "close of closed channel"
    /\ \A p \in Procs :
          Done(p) =>
              /\ call[p].op = "cancel" => chans[call[p].w].closed
              /\ call[p].op = "Close" => ret[p].err = ErrNil

\* a cancel returns after the store was closed
C7_Witness ==
    \E p \in Procs : Done(p) /\ call[p].op = "cancel" /\ closed /\ chans[call[p].w].closed

\* C8: in the durable engine a Set, a SetFn, or an entry of a SetAll whose
\* bytes are identical to the stored bytes emits no event.
C8_IdenticalWriteEmitsNoEvent ==
    \A p \in Procs :
        engine = "sql" /\ Done(p) =>
            /\ call[p].op \in {"Set", "SetFn"} /\ gh[p].same => gh[p].pub = {}
            /\ call[p].op = "SetAll" =>
                  EventKeys(gh[p].pub) \cap gh[p].unchanged = {}

\* C8 (amended): in the durable engine a Set or a SetFn whose bytes are
\* identical to the stored bytes emits no event; a SetAll emits a create event
\* for each key that was absent and an update event for each key that was
\* present, whether its bytes changed or not.
C8_IdenticalSetEmitsNoEvent ==
    \A p \in Procs :
        engine = "sql" /\ Done(p) /\ ret[p].err = ErrNil =>
            /\ call[p].op \in {"Set", "SetFn"} /\ gh[p].same => gh[p].pub = {}
            /\ call[p].op = "SetAll" =>
                  /\ EventKeys(Updates(gh[p].pub)) = gh[p].preexist
                  /\ EventKeys(Creates(gh[p].pub)) = (DOMAIN call[p].vals) \ gh[p].preexist

\* a Set of the durable engine wrote the bytes that were stored
C8_Witness ==
    \E p \in Procs :
        engine = "sql" /\ Done(p) /\ call[p].op = "Set" /\ ret[p].err = ErrNil
                       /\ gh[p].same /\ gh[p].pub = {}

\* C9: in the durable engine a row is created with version 1; a step that
\* changes a row's bytes adds 1 to its version; a step that leaves the bytes
\* as they are leaves version and updated_at as they are.
C9_VersionFollowsBytes ==
    [][engine = "sql" =>
          \A c \in Cells :
              /\ c \notin DOMAIN db /\ c \in DOMAIN db' => db'[c].version = 1
              /\ c \in DOMAIN db /\ c \in DOMAIN db' =>
                    IF db'[c].value # db[c].value
                    THEN db'[c].version = db[c].version + 1
                    ELSE /\ db'[c].version = db[c].version
                         /\ db'[c].updated_at = db[c].updated_at]_vars

\* a SetAll of the durable engine wrote, for a key that was present, the bytes
\* that were stored
C9_Witness ==
    \E p \in Procs :
        engine = "sql" /\ Done(p) /\ call[p].op = "SetAll" /\ ret[p].err = ErrNil
                       /\ gh[p].unchanged # {}

\* C10: in the durable engine the version of a (kind, key) never decreases, a
\* Delete of the key followed by a Set that creates it again included: a key
\* that had a version is never created at a lower one.
C10_VersionNeverDecreases ==
    engine = "sql" => \A c \in DOMAIN db : db[c].version >= maxVersion[c]

\* C11: a Set, SetFn, SetAll or Delete never waits for a watcher.  While a
\* call delivers its events, its next send can always be taken, whatever the
\* state of the queues; its result was fixed before the first send, is not an
\* error and does not change; and a send that finds a queue full leaves that
\* queue as it was (the event is dropped for that watcher).
Sending(p) == pc[p] \in {"fanout", "publish"}

C11_WritesNeverWaitForWatchers ==
    /\ [](\A p \in Procs : Running /\ Sending(p) =>
             ENABLED (MemFanout(p) \/ SqlPublish(p)))
    /\ [][\A p \in Procs : Sending(p) =>
             /\ call[p].op \in WriteOps
             /\ ret[p].err = ErrNil
             /\ ret'[p] = ret[p]
             /\ \A d \in gh'[p].drops \ gh[p].drops : chans'[d[1]].q = chans[d[1]].q]_vars

C11_Witness ==
    \E p \in Procs :
        /\ Done(p) /\ call[p].op \in WriteOps
        /\ gh[p].drops # {} /\ ret[p].err = ErrNil

\* C12: the watchers of one kind are independent.  A write does not return
\* before it has offered each of its events to every watcher that was
\* registered for the kind and accepts the event's type; and an event offered
\* to a watcher whose queue has room is appended to that queue, whatever the
\* state of the other watchers' queues.
Offered(p) == gh'[p].tried \ gh[p].tried

C12_WatchersAreIndependent ==
    /\ [](\A p \in Procs : Done(p) /\ call[p].op \in WriteOps =>
             \A w \in gh[p].before, e \in gh[p].pub :
                 Wants(w, e.type) => <<w, e.key>> \in gh[p].tried)
    /\ [][\A p \in Procs : \A o \in Offered(p) :
             Len(chans[o[1]].q) < chans[o[1]].cap =>
                 /\ Len(chans'[o[1]].q) = Len(chans[o[1]].q) + 1
                 /\ LET e == chans'[o[1]].q[Len(chans'[o[1]].q)]
                    IN  e \in gh[p].pub /\ e.key = o[2]]_vars

C12_Witness ==
    \E p \in Procs, w1, w2 \in DOMAIN chans :
        /\ Done(p) /\ call[p].op \in WriteOps
        /\ \E k \in Keys : <<w1, k>> \in gh[p].drops
                           /\ <<w2, k>> \in gh[p].tried \ gh[p].drops
        /\ \E i \in 1..Len(chans[w2].q) : chans[w2].q[i] \in gh[p].pub

\* C13: in both engines (memStore with its default compare function) and for
\* any values, every Set of a run of Sets on an initially absent key, each of
\* a value that differs from the value before, is delivered to every unfiltered
\* watcher of default capacity that was subscribed before it: the Set handed it
\* one event carrying the value written, of type create for the first Set (the
\* key is absent) and of type update for the later ones.
C13_SetsDeliverCreateThenUpdates ==
    \A p \in Procs :
        /\ Done(p) /\ call[p].op = "Set" /\ ret[p].err = ErrNil
        /\ engine = "mem" => compareFn = "deep"
        /\ gh[p].absent \/ ~gh[p].same
        => \A w \in gh[p].before :
               /\ chans[w].eventTypes = NilTypes
               /\ chans[w].cap = DefaultWatchBufferSize
               /\ ~chans[w].closed
               => \E e \in gh[p].pub :
                      /\ e.key = call[p].key /\ e.obj = call[p].val
                      /\ e.type = IF gh[p].absent THEN EventTypeCreate ELSE EventTypeUpdate
                      /\ <<w, e.key>> \in gh[p].tried \ gh[p].drops

\* C14: a watcher whose filter is {delete} never has an event of another type
\* in its queue, and Set, SetFn and SetAll offer it nothing; a Delete that
\* removed an existing key emits one delete event, with the key and the value
\* removed, which is enqueued once for every such watcher of default capacity
\* that was subscribed before the Delete.
DeleteOnly(w) == chans[w].eventTypes = {EventTypeDelete}
QueueOf(w) == {chans[w].q[i] : i \in 1..Len(chans[w].q)}

C14_DeleteFilterGetsDeletesOnly ==
    /\ \A w \in DOMAIN chans : DeleteOnly(w) =>
           /\ \A e \in QueueOf(w) : e.type = EventTypeDelete
           /\ \A i, j \in 1..Len(chans[w].q) : chans[w].q[i].seq = chans[w].q[j].seq => i = j
    /\ \A p \in Procs : Done(p) /\ call[p].op \in {"Set", "SetFn", "SetAll"} =>
           \A o \in gh[p].tried : ~DeleteOnly(o[1])
    /\ \A p \in Procs : Done(p) /\ call[p].op = "Delete" /\ gh[p].applied =>
           /\ ret[p].err = ErrNil
           /\ \E e \in gh[p].pub :
                 /\ gh[p].pub = {e}
                 /\ e.type = EventTypeDelete /\ e.key = call[p].key /\ e.obj = ret[p].val
           /\ \A w \in gh[p].before :
                 DeleteOnly(w) /\ chans[w].cap = DefaultWatchBufferSize /\ ~chans[w].closed
                 => <<w, call[p].key>> \in gh[p].tried \ gh[p].drops
    /\ \A p \in Procs : Done(p) /\ call[p].op = "Delete" /\ ~gh[p].applied =>
           gh[p].pub = {} /\ gh[p].tried = {}

C14_Witness ==
    \E p \in Procs, w \in DOMAIN chans :
        /\ Done(p) /\ call[p].op = "Delete" /\ gh[p].applied
        /\ w \in gh[p].before /\ DeleteOnly(w) /\ nmut > 1
        /\ \E e \in QueueOf(w) : e.seq = gh[p].seq

\* C15: a watcher subscribed with initial replay and no filter, whose queue
\* holds at least as many events as the kind had entries when it subscribed,
\* and with no write between the start of Watch and the end of the replay:
\* the replay comes to its end, and the queue then holds one create event for
\* each of those entries, with the entry's current value, and nothing else.
Quiet(w) ==
    /\ w \in DOMAIN replay
    /\ replay[w].since = nmut /\ ~replay[w].busy /\ ~WriteBusy
    /\ chans[w].eventTypes = NilTypes
    /\ chans[w].cap >= Cardinality(DOMAIN replay[w].at)

Replayed(w) ==
    /\ Len(chans[w].q) = Cardinality(DOMAIN replay[w].at)
    /\ \A k \in DOMAIN replay[w].at :
          /\ GetNow(chans[w].kind, k) = [NoRet EXCEPT !.ok = TRUE, !.val = replay[w].at[k]]
          /\ \E i \in 1..Len(chans[w].q) :
                LET e == chans[w].q[i]
                IN  /\ e.kind = chans[w].kind /\ e.key = k
                    /\ e.type = EventTypeCreate /\ e.obj = replay[w].at[k]

C15_InitialReplayDeliversEntries ==
    \A w \in WatcherIds :
        /\ [](Quiet(w) /\ replay[w].phase = "done" => Replayed(w))
        /\ Quiet(w) ~> (~Quiet(w) \/ replay[w].phase = "done")

C15_Witness ==
    \E w \in WatcherIds :
        /\ Quiet(w) /\ replay[w].phase = "done"
        /\ Cardinality(DOMAIN replay[w].at) = 2 /\ Len(chans[w].q) = 2

\* C16: in memStore, a Set or SetAll that the kind's validation function
\* rejects returns the validation error, emits no event and leaves the state
\* of the store as it was: Get, List, Keys, Values, Count and GetAll (the
\* kinds it lists included) return after the call what they returned before.
MemReads ==
    [op \in ReadOps |-> [kind \in Kinds |-> [key \in Keys |-> MemReadOut(op, kind, key).ret]]]

Rejected(p) ==
    /\ pc[p] = "idle" /\ pc'[p] = "done"
    /\ call'[p].op \in {"Set", "SetAll"}
    /\ ret'[p].err = ErrValidation

C16_RejectedWriteChangesNothing ==
    [][\A p \in Procs : engine = "mem" /\ Rejected(p) =>
          /\ gh'[p].pub = {}
          /\ MemReads' = MemReads]_vars

\* C17: a SetAll that fails (the validation error of memStore; a codec or
\* storage error on an entry in the durable engine) stores none of the
\* entries of its batch and emits no event: Get, List, Keys, Values and Count
\* of the kind return after the call what they returned before, and no queue
\* has changed.
KindReads(kind) ==
    [op \in ReadOps \ {"GetAll"} |-> [key \in Keys |->
        IF engine = "mem" THEN MemReadOut(op, kind, key).ret ELSE SqlReadOut(op, kind, key)]]

FailedSetAll(p) ==
    /\ pc[p] \in {"idle", "tx"} /\ pc'[p] = "done"
    /\ call'[p].op = "SetAll"
    /\ ret'[p].err \in {ErrValidation, ErrCodec, ErrStorage}

C18_FailedTxIsRolledBack ==
    \A p \in Procs :
        /\ engine = "sql" /\ Done(p) /\ call[p].op \in WriteOps
        /\ gh[p].began /\ ret[p].err # ErrNil
        => ~gh[p].left /\ openTx.n = 0

\* C19: in both engines an event is put into a queue only after its mutation
\* has become visible to reads (memStore has left its critical section, the
\* durable engine has committed): the mutation is counted before the step
\* that enqueues the event and, if no other mutation followed, a Get of the
\* key returns the event's value, or nothing after a delete.  A write that
\* returns an error has handed no event to the fan-out and offered none.
Enqueued(w) ==
    IF w \in DOMAIN chans /\ w \in DOMAIN chans' /\ Len(chans'[w].q) > Len(chans[w].q)
    THEN {chans'[w].q[Len(chans'[w].q)]} ELSE {}

Visible(e) ==
    /\ e.seq <= nmut
    /\ e.seq = nmut /\ Readable =>
          GetNow(e.kind, e.key) =
              IF e.type = EventTypeDelete THEN [NoRet EXCEPT !.val = Zero]
              ELSE [NoRet EXCEPT !.ok = TRUE, !.val = e.obj]

C19_EventsFollowVisibleMutations ==
    /\ [](\A p \in Procs : Done(p) /\ call[p].op \in WriteOps /\ ret[p].err # ErrNil =>
             gh[p].pub = {} /\ gh[p].tried = {})
    /\ [][\A w \in WatcherIds : \A e \in Enqueued(w) : e.op \in WriteOps => Visible(e)]_vars

C19_Witness ==
    \E p \in Procs, w \in DOMAIN chans :
        /\ Done(p) /\ call[p].op \in WriteOps /\ ret[p].err \in {ErrStorage, ErrTransform}
        /\ gh[p].began /\ w \in gh[p].before
        /\ \E e \in QueueOf(w) : e.seq = nmut

\* C20: in both engines, a SetFn on a key that is missing returns the
\* not-found error whatever the transform is (the transform is not called),
\* emits no event and leaves the state of the store as it was: Get, List,
\* Keys, Values, Count and GetAll (the kinds it lists included) return after
\* the call what they returned before.
AllReads ==
    [op \in ReadOps |-> [kind \in Kinds |-> [key \in Keys |->
        IF engine = "mem" THEN MemReadOut(op, kind, key).ret ELSE SqlReadOut(op, kind, key)]]]

SetFnOnMissingKey(p) ==
    /\ pc[p] \in {"idle", "tx"} /\ pc'[p] = "done"
    /\ call'[p].op = "SetFn" /\ gh'[p].absent

C20_SetFnOnMissingKeyChangesNothing ==
    [][\A p \in Procs : SetFnOnMissingKey(p) =>
          /\ ret'[p].err = ErrKeyNotFound
          /\ gh'[p].pub = {}
          /\ chans' = chans
          /\ AllReads' = AllReads]_vars

\* C21: in both engines, a Delete of a key that exists returns existed = true
\* and the value a Get returned just before, leaves the key missing for Get,
\* and hands one delete event with that value to the fan-out; a Delete of a
\* key that is missing returns existed = false with no error, hands no event
\* to the fan-out and leaves the key missing.
Deleting(p, kind, key) ==
    /\ pc[p] \in {"idle", "tx"} /\ pc'[p] \in {"done", "fanout", "publish"}
    /\ call'[p] = [NoCall EXCEPT !.op = "Delete", !.kind = kind, !.key = key]
    /\ ret'[p].err = ErrNil

C21_DeleteRemovesAndReports ==
    [][\A p \in Procs, kind \in Kinds, key \in Keys : Deleting(p, kind, key) =>
          IF GetNow(kind, key).ok
          THEN /\ ret'[p].ok /\ ret'[p].val = GetNow(kind, key).val
               /\ ~GetNow(kind, key)'.ok
               /\ gh'[p].pub = {Event(kind, key, EventTypeDelete, GetNow(kind, key).val,
                                      nmut + 1, "Delete")}
          ELSE /\ ~ret'[p].ok
               /\ gh'[p].pub = {}
               /\ ~GetNow(kind, key)'.ok]_vars

C21_Witness ==
    \E p \in Procs :
        /\ Done(p) /\ call[p].op = "Delete" /\ ret[p].err = ErrNil
        /\ ret[p].ok /\ ret[p].val = 1 /\ Cardinality(gh[p].pub) = 1
        /\ ~GetNow(call[p].kind, call[p].key).ok

\* C22: in both engines a Watch with an empty kind returns the kind-required
\* error and no channel, whether the store is open or closed, and the call
\* leaves the store as it was: no watcher is registered, no channel is made,
\* no kind and no row is created.  No watcher is ever registered under the
\* empty kind.
WatchNoKind(p) ==
    /\ pc[p] = "idle" /\ call'[p].op = "Watch"
    /\ \/ engine = "mem" /\ call'[p].kind = ""
       \/ ret'[p].err = ErrKindRequired

C22_WatchNeedsKind ==
    /\ [][\A p \in Procs : WatchNoKind(p) =>
            /\ pc'[p] = "done"
            /\ ret'[p] = [NoRet EXCEPT !.err = ErrKindRequired]
            /\ UNCHANGED <<closed, kinds, watchers, db, dbOpen, subs, chans,
                           watcherID, replay, fault>>]_vars
    /\ [](/\ \A w \in DOMAIN chans : chans[w].kind # ""
          /\ Registered("") = {}
          /\ "" \notin DOMAIN kinds)

C22_Witness ==
    \E p \in Procs :
        /\ Done(p) /\ call[p].op = "Watch" /\ ret[p].err = ErrKindRequired
        /\ ~ret[p].ok /\ closed /\ chans = EmptyMap

\* C23: in both engines the cancel function of a registered watcher closes
\* that watcher's channel and removes its registration in one step, with the
\* events still queued on the channel left where they are; it changes no other
\* watcher's channel and no other registration, of the same or of another
\* kind.  A Set that emits an event offers it to every watcher of the kind
\* that was registered before the mutation and still is, and whose filter
\* accepts it, and a queue of the default capacity takes it.
Cancelling(p, w) ==
    /\ pc[p] = "idle" /\ pc'[p] = "done"
    /\ call'[p].op = "cancel" /\ call'[p].w = w
    /\ w \in Registered(chans[w].kind)

C23_CancelTouchesOneWatcher ==
    /\ [][\A p \in Procs, w \in DOMAIN chans : Cancelling(p, w) =>
            /\ chans'[w] = [chans[w] EXCEPT !.closed = TRUE]
            /\ \A v \in DOMAIN chans \ {w} : chans'[v] = chans[v]
            /\ \A k \in Kinds : Registered(k)' = Registered(k) \ {w}]_vars
    /\ [](\A p \in Procs :
            Done(p) /\ call[p].op = "Set" =>
                \A e \in gh[p].pub : \A v \in gh[p].before \cap Registered(e.kind) :
                    Wants(v, e.type) =>
                    /\ <<v, e.key>> \in gh[p].tried
                    /\ chans[v].cap = DefaultWatchBufferSize =>
                          <<v, e.key>> \notin gh[p].drops)

C23_Witness ==
    \E p \in Procs, w, v \in DOMAIN chans :
        /\ Done(p) /\ call[p].op = "Set" /\ gh[p].pub # {}
        /\ w # v /\ chans[w].kind = call[p].kind /\ chans[v].kind = call[p].kind
        /\ chans[w].closed /\ w \notin gh[p].before
        /\ v \in gh[p].before /\ <<v, call[p].key>> \in gh[p].tried
        /\ chans[v].q # <<>>

\* C24: in the in-memory engine with a validation function configured for a
\* kind, every value the kind holds passes the kind's validation function, in
\* every reachable state.
C24_StoredValuesPassValidation ==
    engine = "mem" =>
        \A kind \in DOMAIN kinds : \A key \in DOMAIN kinds[kind] :
            ~ValidateFails(kind, kinds[kind][key])

\* C25: in the queue of a watcher subscribed with initial replay, no event of a
\* mutation made after the watcher was registered stands before an event of
\* the replay.
C25_ReplayBeforeLive ==
    \A w \in DOMAIN replay :
        LET q == chans[w].q
        IN  \A i, j \in 1..Len(q) :
                i < j /\ q[j].op = "Watch" =>
                    ~(q[i].op # "Watch" /\ q[i].seq > replay[w].since)

\* C26: in both engines a SetFn that returns no error returns false as its
\* boolean result, whether the transform changed the stored value or not.
C26_SetFnReturnsFalse ==
    \A p \in Procs :
        Done(p) /\ call[p].op = "SetFn" /\ ret[p].err = ErrNil => ~ret[p].ok

C26_Witness ==
    \E p \in Procs :
        /\ Done(p) /\ call[p].op = "SetFn" /\ ret[p].err = ErrNil
        /\ ~ret[p].ok /\ ~gh[p].same /\ gh[p].pub # {}
        /\ GetNow(call[p].kind, call[p].key).ok
        /\ GetNow(call[p].kind, call[p].key).val = Transform(call[p].fn, Zero)

\* C27: in both engines a step of a Set, SetFn, SetAll or Delete on a kind
\* changes what the reads of every other kind return for no key (presence and
\* value), and the call offers its events to watchers of its own kind only:
\* every event in a watcher's queue is of the watcher's kind.
WriteStep(p) == pc'[p] # pc[p] /\ call'[p].op \in WriteOps

C27_WritesStayInTheirKind ==
    /\ [][\A p \in Procs : WriteStep(p) =>
            \A other \in Kinds \ {call'[p].kind} : KindReads(other)' = KindReads(other)]_vars
    /\ [](\A w \in DOMAIN chans : \A i \in 1..Len(chans[w].q) :
            chans[w].q[i].kind = chans[w].kind)
    /\ [](\A p \in Procs : \A t \in gh[p].tried :
            call[p].op \in WriteOps => chans[t[1]].kind = call[p].kind)

C27_Witness ==
    \E p \in Procs, w \in DOMAIN chans :
        /\ Done(p) /\ call[p].op \in WriteOps /\ gh[p].pub # {}
        /\ chans[w].kind # call[p].kind /\ ~chans[w].closed
        /\ gh[p].tried = {} /\ chans[w].q = <<>>
        /\ GetNow(chans[w].kind, call[p].key).ok
        /\ GetNow(chans[w].kind, call[p].key).val # GetNow(call[p].kind, call[p].key).val

\* C28: in both engines a SetAll that returns no error applies its whole batch
\* in one step that sends nothing, and emits exactly one event for each
\* supplied key: a create event if the key was absent just before that step
\* and an update event if it was present, whether or not its value changed.
\* When the call returns, each of these events has been offered to every
\* watcher of the kind that was registered throughout and whose filter accepts
\* the event's type, and no watcher's queue holds an event of a SetAll twice.
ApplyingAll(p, kind, values) ==
    /\ pc[p] \in {"idle", "tx"} /\ pc'[p] \in {"done", "fanout", "publish"}
    /\ call'[p] = [NoCall EXCEPT !.op = "SetAll", !.kind = kind, !.vals = values]
    /\ ret'[p].err = ErrNil

C28_SetAllEmitsOneEventPerKey ==
    /\ [][\A p \in Procs, kind \in Kinds, values \in SetAllInputs :
            ApplyingAll(p, kind, values) =>
                /\ gh'[p].pub =
                      {Event(kind, k, IF GetNow(kind, k).ok THEN EventTypeUpdate
                                      ELSE EventTypeCreate,
                             values[k], nmut + 1, "SetAll") : k \in DOMAIN values}
                /\ \A k \in DOMAIN values :
                      GetNow(kind, k)'.ok /\ GetNow(kind, k)'.val = values[k]
                /\ chans' = chans /\ gh'[p].tried = {}]_vars
    /\ [](\A p \in Procs :
            Done(p) /\ call[p].op = "SetAll" /\ ret[p].err = ErrNil =>
                \A e \in gh[p].pub : \A w \in gh[p].before \cap Registered(e.kind) :
                    /\ Wants(w, e.type) <=> <<w, e.key>> \in gh[p].tried
                    /\ <<w, e.key>> \in gh[p].drops => chans[w].cap # DefaultWatchBufferSize)
    /\ [](\A w \in DOMAIN chans : \A i, j \in 1..Len(chans[w].q) :
            chans[w].q[i].op = "SetAll" /\ chans[w].q[i] = chans[w].q[j] => i = j)

C28_Witness ==
    \E p \in Procs, w \in DOMAIN chans :
        /\ Done(p) /\ call[p].op = "SetAll" /\ ret[p].err = ErrNil
        /\ gh[p].unchanged # {}
        /\ Cardinality(Creates(gh[p].pub)) = 1 /\ Cardinality(Updates(gh[p].pub)) = 1
        /\ w \in gh[p].before
        /\ gh[p].tried = {w} \X DOMAIN call[p].vals
        /\ gh[p].drops = {}

\* C29: in the in-memory engine no Set, SetFn, SetAll or Delete sends an event
\* on a watcher channel that a cancel or Close has closed: the fan-out of a
\* write never panics with a send on a closed channel.
C29_FanoutNeverSendsOnClosedChannel ==
    \A p \in Procs :
        engine = "mem" /\ call[p].op \in WriteOps =>
            ~(pc[p] = "panic" /\ fault = "send on closed channel")

\* C30: in both engines the goroutine of the initial replay never sends on a
\* watcher channel that has been closed: no state is reached in which the
\* program has panicked with a send on a closed channel made by the replay
\* (a panic of a write's fan-out leaves the writer at its panic).
C30_ReplayNeverSendsOnClosedChannel ==
    fault = "send on closed channel" => \E p \in Procs : pc[p] = "panic"

\* C31: in the durable engine publish never sends on a closed watcher
\* channel: every channel registered in s.subs is open in every reachable
\* state, no publish panics with a send on a closed channel, and no step
\* appends an event to the queue of a channel that has been closed.
C31_PublishMeetsOpenChannelsOnly ==
    /\ [](engine = "sql" =>
            /\ \A k \in DOMAIN subs.m : \A w \in subs.m[k] : ~chans[w].closed
            /\ fault # "send on closed channel")
    /\ [][engine = "sql" =>
            \A w \in DOMAIN chans :
                chans[w].closed => Len(chans'[w].q) <= Len(chans[w].q)]_vars

C31_Witness ==
    \E p \in Procs, w \in DOMAIN chans :
        /\ engine = "sql" /\ Done(p) /\ call[p].op \in WriteOps /\ gh[p].pub # {}
        /\ chans[w].closed /\ ~closed /\ chans[w].kind = call[p].kind
        /\ w \in gh[p].before /\ chans[w].eventTypes = NilTypes
        /\ gh[p].tried = {} /\ chans[w].q = <<>>

\* C32: in both engines the replay of a watcher subscribed with initial
\* replay finishes whether or not the consumer ever reads from the channel: a
\* replay event that finds the queue full is dropped.
C32_ReplayFinishesWithoutConsumer ==
    \A w \in WatcherIds :
        (w \in DOMAIN replay) ~> (w \in DOMAIN replay /\ replay[w].phase = "done")

C34_SetFnNoOpEmitsNothing ==
    \A p \in Procs :
        /\ Done(p) /\ call[p].op = "SetFn" /\ ret[p].err = ErrNil
        /\ gh[p].same
        /\ engine = "mem" => compareFn # "never"
        => gh[p].pub = {}

\* C35: in both engines SetFn reads, transforms and stores in one step: the
\* step in which a call of SetFn that returns no error is applied finds the
\* key present and leaves as its value the transform of the value the entry
\* had just before that step, and the value of an entry changes in no step
\* other than the one in which a Set or SetFn on that entry that returns no
\* error is applied.  So the value left by concurrent calls of SetFn is their
\* transforms applied one after the other, in the order of those steps.
SetFnApplies(p, kind, key, fn) ==
    /\ pc[p] \in {"idle", "tx"} /\ pc'[p] \in {"done", "fanout", "publish"}
    /\ call'[p] = [NoCall EXCEPT !.op = "SetFn", !.kind = kind, !.key = key, !.fn = fn]
    /\ ret'[p].err = ErrNil

C35_SetFnIsAtomic ==
    /\ [][\A p \in Procs, kind \in Kinds, key \in Keys, fn \in Fns :
            SetFnApplies(p, kind, key, fn) =>
                /\ GetNow(kind, key).ok /\ GetNow(kind, key)'.ok
                /\ GetNow(kind, key)'.val = Transform(fn, GetNow(kind, key).val)]_vars
    /\ [][\A kind \in Kinds, key \in Keys :
            GetNow(kind, key)' # GetNow(kind, key) =>
                \E p \in Procs :
                    /\ pc[p] \in {"idle", "tx"} /\ pc'[p] \in {"done", "fanout", "publish"}
                    /\ call'[p].op \in {"Set", "SetFn"}
                    /\ call'[p].kind = kind /\ call'[p].key = key
                    /\ ret'[p].err = ErrNil]_vars

\* two calls of SetFn on one entry overlap, both are applied, and the entry
\* holds the second transform of the first transform
C35_Witness ==
    \E p, q \in Procs :
        /\ Done(p) /\ call[p].op = "SetFn" /\ call[p].fn = "inc" /\ gh[p].applied
        /\ pc[q] \in {"fanout", "publish"} /\ call[q].op = "SetFn" /\ call[q].fn = "inc"
        /\ gh[q].applied /\ call[q].kind = call[p].kind /\ call[q].key = call[p].key
        /\ gh[p].seq = gh[q].seq + 1
        /\ \E e \in gh[q].pub :
              GetNow(call[p].kind, call[p].key).val = Transform("inc", e.obj)

\* C36: in both engines, when calls of Set by concurrent callers meet on a key
\* that was absent, exactly one of them creates it: a Set that returns no
\* error returns created = true and emits one create event exactly when it
\* found the key absent, and of two overlapping calls of Set on one key at
\* most one found it absent, at most one returns created = true and at most
\* one emits a create event.
SetReturned(p) ==
    /\ pc[p] \in {"done", "fanout", "publish"} /\ call[p].op = "Set" /\ ret[p].err = ErrNil

C36_OneSetCreates ==
    /\ \A p \in Procs : SetReturned(p) =>
          /\ ret[p].ok <=> gh[p].absent
          /\ Cardinality(Creates(gh[p].pub)) = IF gh[p].absent THEN 1 ELSE 0
    /\ \A p, q \in Procs :
          (/\ p # q /\ SetReturned(p) /\ SetReturned(q)
           /\ call[p].kind = call[q].kind /\ call[p].key = call[q].key) =>
              /\ ~(gh[p].absent /\ gh[q].absent)
              /\ ~(ret[p].ok /\ ret[q].ok)
              /\ Creates(gh[p].pub) = {} \/ Creates(gh[q].pub) = {}

\* C37: in both engines a watcher subscribed with initial replay is handed at
\* most one create event for one creation of a key: where keys are created and
\* never deleted, the watcher's queue never holds two create events for one
\* key, whether they come from the replay or from a Set.
C37_OneCreatePerCreation ==
    \A w \in DOMAIN chans : \A i, j \in 1..Len(chans[w].q) :
        (/\ i # j
         /\ chans[w].q[i].type = EventTypeCreate
         /\ chans[w].q[j].type = EventTypeCreate) => chans[w].q[i].key # chans[w].q[j].key

\* C38: an in-memory store and a durable store, both with the default options,
\* that have been given the same sequence of Set, SetAll, SetFn, Delete and
\* Watch calls return the same mapping from GetAll: the same kinds, and under
\* each kind the same keys with the same values.
C38_GetAllAgrees ==
    engine = "both" =>
        MemReadOut("GetAll", "", "").ret.data = SqlReadOut("GetAll", "", "").data

\* C39: in every reachable state of an open store, in both engines and for
\* every kind, the reads agree: Count equals the number of keys that Keys
\* returns, the number of pairs that Values returns and the size of the
\* unfiltered List, and for every key, Get reports the key found exactly when
\* the key is among Keys and in List and with a pair in Values, and then List
\* and Values hold the value that Get returns.  A read call that returns no
\* error returns what the store holds at that instant.
ReadNow(op, kind, key) ==
    IF engine = "mem" THEN MemReadOut(op, kind, key).ret
    ELSE SqlReadOut(op, kind, key)

C39_ReadsAgree ==
    (~closed /\ Readable) =>
        /\ \A kind \in Kinds :
              /\ ReadNow("Count", kind, "").data = Cardinality(ReadNow("Keys", kind, "").data)
              /\ ReadNow("Count", kind, "").data = Cardinality(ReadNow("Values", kind, "").data)
              /\ ReadNow("Count", kind, "").data = Cardinality(DOMAIN ReadNow("List", kind, "").data)
              /\ \A key \in Keys :
                    LET got == ReadNow("Get", kind, key)
                    IN  /\ got.ok <=> key \in ReadNow("Keys", kind, "").data
                        /\ got.ok <=> key \in DOMAIN ReadNow("List", kind, "").data
                        /\ got.ok <=> \E kv \in ReadNow("Values", kind, "").data : kv[1] = key
                        /\ got.ok => /\ ReadNow("List", kind, "").data[key] = got.val
                                     /\ <<key, got.val>> \in ReadNow("Values", kind, "").data
        /\ \A p \in Procs :
              (Done(p) /\ call[p].op \in ReadOps \ {"GetAll"} /\ ret[p].err = ErrNil) =>
                  ret[p] = ReadNow(call[p].op, call[p].kind, call[p].key)

\* a Count that returns 2 for a kind of two entries while another call is
\* under way
C39_Witness ==
    \E p, q \in Procs :
        /\ Done(p) /\ call[p].op = "Count" /\ ret[p].err = ErrNil /\ ret[p].data = 2
        /\ ~closed /\ Readable
        /\ pc[q] \in {"fanout", "publish", "tx"}

\* C40: in both engines every call that has started returns in the end,
\* whatever the other goroutine calls meanwhile (reads, Set, SetFn, SetAll,
\* Delete, Watch, cancel, Close) and whether or not a watcher's channel is
\* ever read.
C40_EveryCallReturns ==
    \A p \in Procs : (pc[p] # "idle") ~> (pc[p] = "idle")

====
